---- MODULE Spec2Model ----
(***************************************************************************)
(* A model of the text-to-graph engine of the Sankey drawer                *)
(* (app/src/lib/dsl-parser.ts): parseNumber, the comparison resolver, the  *)
(* three line notations, parseDSL with its aggregation and cycle filter,   *)
(* serializeToDSL and parseCSV.                                            *)
(*                                                                         *)
(* A JavaScript string is a sequence of one-character strings.  A number   *)
(* is a decimal m * 10^e (exact where a double would round), or NaN.  An   *)
(* optional field (T | undefined) is <<>> when undefined and <<x>> when    *)
(* it holds x.  A Map or Set is the sequence of its entries in insertion   *)
(* order.                                                                  *)
(***************************************************************************)
EXTENDS Integers, Sequences, FiniteSets, TLC

VARIABLES
    mode,        \* the entry point called: "dsl" (parseDSL) or "csv" (parseCSV)
    pc,          \* position in the entry point
    text,        \* the argument of the entry point
    lines,       \* text.split('\n') (parseCSV: without the blank lines)
    lineNo,      \* number of entries of lines consumed so far
    hasHeader,   \* parseCSV: whether the first line was taken as a header
    nodes,       \* Map name -> node, in insertion order
    links,       \* the links pushed by the line loop
    nodeColors,  \* Map name -> color
    uniqueLinks, \* Map key -> link of the aggregation loop
    idx,         \* index of the aggregation / cycle-filter loop
    validGraph,  \* Map source -> Set of targets (accepted edges)
    safeLinks,   \* the accepted links
    result,      \* the value returned
    pass,        \* 1: the call on the input text; 2: parseDSL on the serializer's output
    first,       \* the graph returned by the first call, once serialized
    rows         \* SpreadsheetEditor: the rows of the grid (empty without the editor)

vars == <<mode, pc, text, lines, lineNo, hasHeader, nodes, links, nodeColors,
          uniqueLinks, idx, validGraph, safeLinks, result, pass, first, rows>>

(***************************************************************************)
(* Characters and strings                                                  *)
(***************************************************************************)
SetMin(S) == CHOOSE x \in S : \A y \in S : x <= y
SetMax(S) == CHOOSE x \in S : \A y \in S : x >= y

Digits == <<"0", "1", "2", "3", "4", "5", "6", "7", "8", "9">>
UpperCase == <<"A", "B", "C", "D", "E", "F", "G", "H", "I", "J", "K", "L", "M",
               "N", "O", "P", "Q", "R", "S", "T", "U", "V", "W", "X", "Y", "Z">>
LowerCase == <<"a", "b", "c", "d", "e", "f", "g", "h", "i", "j", "k", "l", "m",
               "n", "o", "p", "q", "r", "s", "t", "u", "v", "w", "x", "y", "z">>

IsSpace(c) == c \in {" ", "\t"}
IsDigit(c) == \E i \in 1..10 : Digits[i] = c
DigitVal(c) == (CHOOSE i \in 1..10 : Digits[i] = c) - 1
IsUpper(c) == \E i \in 1..26 : UpperCase[i] = c
IsLower(c) == \E i \in 1..26 : LowerCase[i] = c
IsLetter(c) == IsUpper(c) \/ IsLower(c)
IsHex(c) == IsDigit(c) \/ c \in {"a", "b", "c", "d", "e", "f", "A", "B", "C", "D", "E", "F"}

toLowerChar(c) == IF IsUpper(c) THEN LowerCase[CHOOSE i \in 1..26 : UpperCase[i] = c] ELSE c
toLowerCase(s) == [i \in 1..Len(s) |-> toLowerChar(s[i])]

Drop(s, n) == SubSeq(s, n + 1, Len(s))
Take(s, n) == SubSeq(s, 1, n)

LeadingSpaces(s) ==
    IF \E i \in 1..Len(s) : ~IsSpace(s[i])
    THEN SetMin({i \in 1..Len(s) : ~IsSpace(s[i])}) - 1
    ELSE Len(s)
TrailingSpaces(s) ==
    IF \E i \in 1..Len(s) : ~IsSpace(s[i])
    THEN Len(s) - SetMax({i \in 1..Len(s) : ~IsSpace(s[i])})
    ELSE Len(s)
trimStart(s) == Drop(s, LeadingSpaces(s))
trimEnd(s) == Take(s, Len(s) - TrailingSpaces(s))
trim(s) == trimEnd(trimStart(s))
mapTrim(parts) == [i \in 1..Len(parts) |-> trim(parts[i])]

startsWith(s, p) == Len(s) >= Len(p) /\ Take(s, Len(p)) = p
endsWith(s, p) == Len(s) >= Len(p) /\ Drop(s, Len(s) - Len(p)) = p
includes(s, p) == \E i \in 0..(Len(s) - Len(p)) : SubSeq(s, i + 1, i + Len(p)) = p
\* indexOf, 1-based; 0 when absent
indexOf(s, c) == IF \E i \in 1..Len(s) : s[i] = c
                 THEN SetMin({i \in 1..Len(s) : s[i] = c}) ELSE 0

RECURSIVE split(_, _)
split(s, c) ==
    IF indexOf(s, c) = 0 THEN <<s>>
    ELSE <<Take(s, indexOf(s, c) - 1)>> \o split(Drop(s, indexOf(s, c)), c)

RECURSIVE join(_, _)
join(parts, sep) ==
    IF parts = <<>> THEN <<>>
    ELSE IF Len(parts) = 1 THEN parts[1]
    ELSE parts[1] \o sep \o join(Tail(parts), sep)

\* s.replace(/[$,\s]/g, '')
RECURSIVE stripFormatting(_)
stripFormatting(s) ==
    IF s = <<>> THEN <<>>
    ELSE IF s[1] \in {"$", ","} \/ IsSpace(s[1]) THEN stripFormatting(Tail(s))
    ELSE <<s[1]>> \o stripFormatting(Tail(s))

\* s.replace(/\s+/g, '_')
RECURSIVE underscoreSpaces(_)
underscoreSpaces(s) ==
    IF s = <<>> THEN <<>>
    ELSE IF IsSpace(s[1]) THEN <<"_">> \o underscoreSpaces(trimStart(s))
    ELSE <<s[1]>> \o underscoreSpaces(Tail(s))

\* s.split(/\s{2,}/).filter(Boolean): the fields between runs of two or more blanks
wideGaps(s) == {i \in 1..(Len(s) - 1) : IsSpace(s[i]) /\ IsSpace(s[i + 1])}
RECURSIVE splitWide(_)
splitWide(s) ==
    IF wideGaps(s) = {} THEN (IF s = <<>> THEN <<>> ELSE <<s>>)
    ELSE (IF SetMin(wideGaps(s)) = 1 THEN <<>> ELSE <<Take(s, SetMin(wideGaps(s)) - 1)>>)
         \o splitWide(trimStart(Drop(s, SetMin(wideGaps(s)) - 1)))

\* the last run of non-blank characters of a string that ends with one, and the
\* string before it without its trailing blanks
lastSpace(s) == IF \E i \in 1..Len(s) : IsSpace(s[i])
                THEN SetMax({i \in 1..Len(s) : IsSpace(s[i])}) ELSE 0
lastToken(s) == Drop(s, lastSpace(s))
beforeLastToken(s) == trimEnd(Take(s, lastSpace(s)))

(***************************************************************************)
(* Numbers                                                                 *)
(***************************************************************************)
RECURSIVE Pow10(_)
Pow10(n) == IF n <= 0 THEN 1 ELSE 10 * Pow10(n - 1)

Abs(n) == IF n < 0 THEN -n ELSE n

NaN == [k |-> "nan", m |-> 0, e |-> 0]
RECURSIVE Normalize(_, _)
Normalize(m, e) ==
    IF m = 0 THEN [k |-> "num", m |-> 0, e |-> 0]
    ELSE IF m % 10 = 0 THEN Normalize(m \div 10, e + 1)
    ELSE [k |-> "num", m |-> m, e |-> e]

isNaN(x) == x.k = "nan"
Plus(a, b) ==
    IF isNaN(a) \/ isNaN(b) THEN NaN
    ELSE IF a.e < b.e THEN Normalize(a.m + b.m * Pow10(b.e - a.e), a.e)
    ELSE Normalize(a.m * Pow10(a.e - b.e) + b.m, b.e)
Negate(a) == IF isNaN(a) THEN NaN ELSE [a EXCEPT !.m = -a.m]
Minus(a, b) == Plus(a, Negate(b))
\* a * 10^n
Scale10(a, n) == IF isNaN(a) THEN NaN ELSE Normalize(a.m, a.e + n)
GreaterThanZero(a) == ~isNaN(a) /\ a.m > 0
LessOrEqualZero(a) == ~isNaN(a) /\ a.m <= 0

RECURSIVE DigitsToInt(_)
DigitsToInt(ds) ==
    IF ds = <<>> THEN 0
    ELSE 10 * DigitsToInt(Take(ds, Len(ds) - 1)) + DigitVal(ds[Len(ds)])

RECURSIVE IntToStr(_)
IntToStr(n) ==
    IF n < 10 THEN <<Digits[n + 1]>>
    ELSE IntToStr(n \div 10) \o <<Digits[(n % 10) + 1]>>

Zeros(n) == [i \in 1..n |-> "0"]

\* the length of the longest prefix of s made of digits
DigitRun(s) ==
    IF \E i \in 1..Len(s) : ~IsDigit(s[i])
    THEN SetMin({i \in 1..Len(s) : ~IsDigit(s[i])}) - 1
    ELSE Len(s)

\* parseFloat on a string without leading blanks: the longest prefix that is a
\* decimal literal ([+-] digits [. digits] [e [+-] digits]), NaN when there is none.
\* ("Infinity" is not a number of this model.)
floatExpValue(ds) ==
    IF DigitRun(ds) = 0 THEN 0 ELSE DigitsToInt(Take(ds, DigitRun(ds)))
floatExponent(rest) ==
    IF rest = <<>> \/ rest[1] \notin {"e", "E"} THEN 0
    ELSE IF Len(rest) >= 2 /\ rest[2] = "-" THEN -floatExpValue(Drop(rest, 2))
    ELSE IF Len(rest) >= 2 /\ rest[2] = "+" THEN floatExpValue(Drop(rest, 2))
    ELSE floatExpValue(Tail(rest))
floatValue(sign, intDigits, fracDigits, rest) ==
    IF intDigits = <<>> /\ fracDigits = <<>> THEN NaN
    ELSE Normalize(sign * DigitsToInt(intDigits \o fracDigits),
                   floatExponent(rest) - Len(fracDigits))
floatFraction(sign, intDigits, rest) ==
    IF rest # <<>> /\ rest[1] = "."
    THEN floatValue(sign, intDigits, Take(Tail(rest), DigitRun(Tail(rest))),
                    Drop(Tail(rest), DigitRun(Tail(rest))))
    ELSE floatValue(sign, intDigits, <<>>, rest)
floatUnsigned(sign, body) ==
    floatFraction(sign, Take(body, DigitRun(body)), Drop(body, DigitRun(body)))
parseFloat(s) ==
    IF s # <<>> /\ s[1] = "-" THEN floatUnsigned(-1, Tail(s))
    ELSE IF s # <<>> /\ s[1] = "+" THEN floatUnsigned(1, Tail(s))
    ELSE floatUnsigned(1, s)

\* a suffix table without bn
SuffixPowerNoBn(suffix) ==
    IF suffix = <<"k">> THEN 3
    ELSE IF suffix \in {<<"m">>, <<"m", "i", "l", "l", "i", "o", "n">>} THEN 6
    ELSE IF suffix \in {<<"b">>, <<"b", "i", "l", "l", "i", "o", "n">>} THEN 9
    ELSE 0

\* The power of ten that a recognised suffix multiplies by; 0 for any other text.
SuffixPower(suffix) ==
    IF suffix = <<"k">> THEN 3
    ELSE IF suffix \in {<<"m">>, <<"m", "i", "l", "l", "i", "o", "n">>} THEN 6
    ELSE IF suffix \in {<<"b">>, <<"b", "n">>, <<"b", "i", "l", "l", "i", "o", "n">>} THEN 9
    ELSE 0

\* the length of the longest prefix of s matching [\d.]*
NumericRun(s) ==
    IF \E i \in 1..Len(s) : ~(IsDigit(s[i]) \/ s[i] = ".")
    THEN SetMin({i \in 1..Len(s) : ~(IsDigit(s[i]) \/ s[i] = ".")}) - 1
    ELSE Len(s)

\* /^([\d.]+)\s*(k|m|b|bn|million|billion)?$/i on the cleaned string, split into
\* its longest [\d.]* prefix and the lower-cased rest
parseSuffixed(cleaned, head, suffix) ==
    IF head # <<>> /\ (suffix = <<>> \/ SuffixPower(suffix) > 0)
    THEN Scale10(parseFloat(head), SuffixPower(suffix))
    ELSE parseFloat(cleaned)
parseCleaned(cleaned) ==
    parseSuffixed(cleaned, Take(cleaned, NumericRun(cleaned)),
                  toLowerCase(Drop(cleaned, NumericRun(cleaned))))
parseNumber(str) == parseCleaned(trim(stripFormatting(str)))

\* `${n}` for a number n (Number::toString, in the range printed without exponent)
digitsToStr(negative, ds, e) ==
    (IF negative THEN <<"-">> ELSE <<>>)
    \o (IF e >= 0 THEN ds \o Zeros(e)
        ELSE IF Len(ds) > -e THEN Take(ds, Len(ds) + e) \o <<".">> \o Drop(ds, Len(ds) + e)
        ELSE <<"0", ".">> \o Zeros(-e - Len(ds)) \o ds)
NumToStr(a) ==
    IF isNaN(a) THEN <<"N", "a", "N">> ELSE digitsToStr(a.m < 0, IntToStr(Abs(a.m)), a.e)

\* (num / den).toFixed(0): the nearest integer to the magnitude, a tie to the larger,
\* behind a "-" whenever the quotient is below zero
ratioToFixed0(num, den) ==
    (IF num # 0 /\ ((num < 0) # (den < 0)) THEN <<"-">> ELSE <<>>)
    \o IntToStr((2 * Abs(num) + Abs(den)) \div (2 * Abs(den)))
\* ((diff / previous) * 100).toFixed(0)
PercentToFixed0(diff, previous) ==
    IF isNaN(diff) THEN <<"N", "a", "N">>
    ELSE IF diff.e + 2 < previous.e
         THEN ratioToFixed0(diff.m, previous.m * Pow10(previous.e - diff.e - 2))
    ELSE ratioToFixed0(diff.m * Pow10(diff.e + 2 - previous.e), previous.m)

(***************************************************************************)
(* The comparison resolver                                                 *)
(***************************************************************************)
\* a token test that knows "nan" only
INVALID_NAN_ONLY(s) == toLowerCase(s) = <<"n", "a", "n">>

\* /^(nan|null|undefined|n\/a|na|none|--?)$/i
INVALID_COMPARISON_TOKEN(s) ==
    toLowerCase(s) \in {<<"n", "a", "n">>, <<"n", "u", "l", "l">>,
                        <<"u", "n", "d", "e", "f", "i", "n", "e", "d">>,
                        <<"n", "/", "a">>, <<"n", "a">>, <<"n", "o", "n", "e">>,
                        <<"-">>, <<"-", "-">>}

\* value: an optional string; the result: an optional non-empty string
sanitizeTrimmed(trimmed) ==
    IF trimmed = <<>> \/ INVALID_COMPARISON_TOKEN(trimmed) THEN <<>> ELSE <<trimmed>>
sanitizeComparisonLabel(value) ==
    IF value = <<>> THEN <<>> ELSE sanitizeTrimmed(trim(value[1]))

NoComparison == [previousValue |-> <<>>, comparisonValue |-> <<>>]

percentLabel(diff, previous) ==
    (IF ~isNaN(diff) /\ diff.m >= 0 THEN <<"+">> ELSE <<>>)
    \o PercentToFixed0(diff, previous) \o <<"%">>

\* the branch of a token that is not a ready-made label; previous = parseNumber(comparison)
numericComparison(value, comparison, previous) ==
    IF ~isNaN(previous) /\ previous.m # 0
    THEN [previousValue |-> <<previous>>,
          comparisonValue |-> <<percentLabel(Minus(value, previous), previous)>>]
    ELSE IF \E i \in 1..Len(comparison) : IsLetter(comparison[i])
         THEN [previousValue |-> <<>>, comparisonValue |-> <<comparison>>]
    ELSE NoComparison

\* a label test that knows the leading + only
isStringLabelPlusOnly(comparison) == startsWith(comparison, <<"+">>)

isStringLabel(comparison) ==
    startsWith(comparison, <<"+">>) \/ endsWith(comparison, <<"%">>)
    \/ startsWith(comparison, <<"-">>)

sanitizedComparison(value, sanitized) ==
    IF sanitized = <<>> THEN NoComparison
    ELSE IF isStringLabel(sanitized[1])
         THEN [previousValue |-> <<>>, comparisonValue |-> sanitized]
    ELSE numericComparison(value, sanitized[1], parseNumber(sanitized[1]))

parseComparisonFields(value, rawComparison) ==
    sanitizedComparison(value, sanitizeComparisonLabel(rawComparison))

(***************************************************************************)
(* The line notations                                                      *)
(***************************************************************************)
\* the loop of parseCSVLine over the characters of a line
RECURSIVE csvScan(_, _, _)
csvScan(rest, current, inQuotes) ==
    IF rest = <<>> THEN <<trim(current)>>
    ELSE IF rest[1] = "\"" THEN csvScan(Tail(rest), current, ~inQuotes)
    ELSE IF rest[1] = "," /\ ~inQuotes
         THEN <<trim(current)>> \o csvScan(Tail(rest), <<>>, inQuotes)
    ELSE csvScan(Tail(rest), current \o <<rest[1]>>, inQuotes)

parseCSVLine(ln) == csvScan(ln, <<>>, FALSE)

\* a ParsedFlowLine; comparison = [previousValue, comparisonValue]
Flow(sourceName, targetName, value, comparison) ==
    [sourceName |-> sourceName, targetName |-> targetName, value |-> value,
     previousValue |-> comparison.previousValue,
     comparisonValue |-> comparison.comparisonValue]

\* /^(.+?)\s*->\s*(.+?)\s+([^\s]+)(?:\s+([^\s]+))?$/ with group 1 of length k:
\* <<>> when the rest does not match, else <<[g2, g3, g4]>> (g4 optional).
\* Group 2 is lazy: the last two tokens are groups 3 and 4 when three or more tokens
\* follow the arrow, and a lone token after two or more blanks leaves a blank group 2.
arrowThreeTokens(last, before1, before2) ==
    IF before2 = <<>> THEN <<[g2 |-> before1, g3 |-> last, g4 |-> <<>>]>>
    ELSE <<[g2 |-> before2, g3 |-> lastToken(before1), g4 |-> <<last>>]>>
arrowTwoTokens(r0, last, before1) ==
    IF before1 # <<>> THEN arrowThreeTokens(last, before1, beforeLastToken(before1))
    ELSE IF LeadingSpaces(r0) >= 2
         THEN <<[g2 |-> <<r0[LeadingSpaces(r0) - 1]>>, g3 |-> last, g4 |-> <<>>]>>
    ELSE <<>>
arrowTokens(r0, r) ==
    IF r = <<>> THEN <<>> ELSE arrowTwoTokens(r0, lastToken(r), beforeLastToken(r))
arrowAfterSource(t) ==
    IF startsWith(t, <<"-", ">">>) THEN arrowTokens(Drop(t, 2), trimStart(Drop(t, 2)))
    ELSE <<>>
arrowMatchAt(s, k) == arrowAfterSource(trimStart(Drop(s, k)))

\* the body of parseArrowFlowLine after the match
arrowFlow(sourceName, targetName, value, rawComparison) ==
    IF sourceName = <<>> \/ targetName = <<>> \/ isNaN(value) \/ LessOrEqualZero(value)
    THEN <<>>
    ELSE <<Flow(sourceName, targetName, value, parseComparisonFields(value, rawComparison))>>
arrowMatched(g1, arrowMatch) ==
    arrowFlow(trim(g1), trim(arrowMatch.g2), parseNumber(arrowMatch.g3), arrowMatch.g4)
arrowFirstMatch(trimmed, ks) ==
    IF ks = {} THEN <<>>
    ELSE arrowMatched(Take(trimmed, SetMin(ks)), arrowMatchAt(trimmed, SetMin(ks))[1])
parseArrowFlowLine(trimmed) ==
    arrowFirstMatch(trimmed, {k \in 1..Len(trimmed) : arrowMatchAt(trimmed, k) # <<>>})

\* the columns parseDelimitedFlowLine settles on; <<>> for null
spacedColumns(cols) == IF Len(cols) >= 3 THEN cols ELSE <<>>
csvColumns(trimmed, cols) ==
    IF Len(cols) >= 3 THEN cols ELSE spacedColumns(mapTrim(splitWide(trimmed)))
tabColumns(trimmed, cols) ==
    IF Len(cols) >= 3 THEN cols
    ELSE csvColumns(trimmed, IF includes(trimmed, <<",">>)
                             THEN mapTrim(parseCSVLine(trimmed)) ELSE <<>>)
delimitedColumns(trimmed) ==
    tabColumns(trimmed, IF includes(trimmed, <<"\t">>)
                        THEN mapTrim(split(trimmed, "\t")) ELSE <<>>)

\* the body of parseDelimitedFlowLine once the columns are known
delimitedFlow(sourceName, targetName, value, rawComparison) ==
    IF sourceName = <<>> \/ targetName = <<>> \/ isNaN(value) \/ LessOrEqualZero(value)
    THEN <<>>
    ELSE <<Flow(sourceName, targetName, value, parseComparisonFields(value, rawComparison))>>
delimitedFromColumns(columns) ==
    IF columns = <<>> THEN <<>>
    ELSE delimitedFlow(trim(columns[1]), trim(columns[2]), parseNumber(columns[3]),
                       IF Len(columns) >= 4 THEN <<columns[4]>> ELSE <<>>)
parseDelimitedFlowLine(trimmed) == delimitedFromColumns(delimitedColumns(trimmed))

\* /^(.+?)\s*:\s*#?([a-fA-F0-9]{6}|[a-fA-F0-9]{3})$/ with group 1 of length k:
\* <<>> when the rest does not match, else <<group 2>>
colorHex(hex) ==
    IF Len(hex) \in {3, 6} /\ \A i \in 1..Len(hex) : IsHex(hex[i]) THEN <<hex>> ELSE <<>>
colorAfterColon(rest) ==
    IF startsWith(rest, <<"#">>) THEN colorHex(Tail(rest)) ELSE colorHex(rest)
colorAfterName(t) ==
    IF startsWith(t, <<":">>) THEN colorAfterColon(trimStart(Tail(t))) ELSE <<>>
colorMatchAt(s, k) == colorAfterName(trimStart(Drop(s, k)))

\* /^(.+?)\s*\[([^\]]+)\]\s*(.+)$/ with group 1 of length k:
\* <<>> when the rest does not match, else <<[content, target]>>
flowInside(inside, close) ==
    IF close >= 2 /\ close < Len(inside)
    THEN <<[content |-> Take(inside, close - 1), target |-> trimStart(Drop(inside, close))]>>
    ELSE <<>>
flowAfterSource(t) ==
    IF startsWith(t, <<"[">>) THEN flowInside(Tail(t), indexOf(Tail(t), "]")) ELSE <<>>
flowMatchAt(s, k) == flowAfterSource(trimStart(Drop(s, k)))

\* the bracket branch of parseDSL's loop body: the value > 0 guard
bracketFlow(sourceName, targetName, value, comparison) ==
    IF ~isNaN(value) /\ GreaterThanZero(value)
    THEN <<Flow(sourceName, targetName, value, comparison)>>
    ELSE <<>>
\* content holds a comma: split at the first one
bracketWithComparison(sourceName, targetName, value, compStr) ==
    bracketFlow(sourceName, targetName, value, parseComparisonFields(value, <<compStr>>))
bracketContent(sourceName, targetName, content, firstComma) ==
    IF firstComma > 0
    THEN bracketWithComparison(sourceName, targetName,
                               parseNumber(trim(Take(content, firstComma - 1))),
                               trim(Drop(content, firstComma)))
    ELSE bracketFlow(sourceName, targetName, parseNumber(content), NoComparison)
parseBracketFlow(sourceName, targetName, content) ==
    bracketContent(sourceName, targetName, content, indexOf(content, ","))

(***************************************************************************)
(* Nodes                                                                   *)
(***************************************************************************)
categorizeLower(lower) ==
    IF includes(lower, <<"r", "e", "v", "e", "n", "u", "e">>)
       \/ includes(lower, <<"s", "a", "l", "e", "s">>)
       \/ (includes(lower, <<"i", "n", "c", "o", "m", "e">>)
           /\ ~includes(lower, <<"n", "e", "t">>))
    THEN "revenue"
    ELSE IF includes(lower, <<"c", "o", "s", "t">>)
            \/ includes(lower, <<"e", "x", "p", "e", "n", "s", "e">>)
            \/ includes(lower, <<"c", "o", "g", "s">>)
            \/ includes(lower, <<"t", "a", "x">>)
            \/ includes(lower, <<"d", "e", "p", "r", "e", "c", "i", "a", "t", "i", "o", "n">>)
            \/ includes(lower, <<"a", "m", "o", "r", "t", "i", "z", "a", "t", "i", "o", "n">>)
    THEN "expense"
    ELSE IF includes(lower, <<"p", "r", "o", "f", "i", "t">>)
            \/ includes(lower, <<"n", "e", "t", " ", "i", "n", "c", "o", "m", "e">>)
            \/ includes(lower, <<"e", "a", "r", "n", "i", "n", "g", "s">>)
            \/ includes(lower, <<"e", "b", "i", "t">>)
            \/ includes(lower, <<"e", "b", "i", "t", "d", "a">>)
    THEN "profit"
    ELSE "neutral"
categorizeNode(name) == categorizeLower(toLowerCase(name))

\* the id of a node: name.toLowerCase().replace(/\s+/g, '_')
nodeId(name) == underscoreSpaces(toLowerCase(name))

\* color: an optional string
createNode(name, color) ==
    [id |-> nodeId(name), name |-> name, color |-> color, category |-> categorizeNode(name)]

\* Map<string, SankeyNode> keyed by the name, as the sequence of its values
nodesHas(ns, name) == \E i \in 1..Len(ns) : ns[i].name = name
nodesGet(ns, name) == ns[CHOOSE i \in 1..Len(ns) : ns[i].name = name]

\* Map<string, string> as a sequence of [name, color]
\* a lookup that never finds a color
colorsGetNone(cs, name) == <<>>

colorsGet(cs, name) ==
    IF \E i \in 1..Len(cs) : cs[i].name = name
    THEN <<cs[CHOOSE i \in 1..Len(cs) : cs[i].name = name].color>>
    ELSE <<>>
colorsSet(cs, name, color) ==
    IF \E i \in 1..Len(cs) : cs[i].name = name
    THEN [i \in 1..Len(cs) |-> IF cs[i].name = name THEN [cs[i] EXCEPT !.color = color]
                                ELSE cs[i]]
    ELSE Append(cs, [name |-> name, color |-> color])

(***************************************************************************)
(* parseDSL: the body of the loop over the lines                           *)
(***************************************************************************)
\* parseArrowFlowLine(trimmed) || parseDelimitedFlowLine(trimmed)
arrowOrDelimited(arrow, trimmed) ==
    IF arrow # <<>> THEN arrow ELSE parseDelimitedFlowLine(trimmed)
bracketMatched(g1, flowMatch) ==
    parseBracketFlow(trim(g1), trim(flowMatch.target), trim(flowMatch.content))
flowFirstMatch(trimmed, ks) ==
    IF ks # {}
    THEN bracketMatched(Take(trimmed, SetMin(ks)), flowMatchAt(trimmed, SetMin(ks))[1])
    ELSE arrowOrDelimited(parseArrowFlowLine(trimmed), trimmed)
\* the flow a line stands for, if any: the bracket match, else arrow, else delimited
parseFlowLine(trimmed) ==
    flowFirstMatch(trimmed, {k \in 1..Len(trimmed) : flowMatchAt(trimmed, k) # <<>>})

isSkipped(trimmed) ==
    trimmed = <<>> \/ startsWith(trimmed, <<"/", "/">>) \/ startsWith(trimmed, <<"#">>)

\* a node map that puts a new name before the others
ensureNodeFront(ns, cs, name) ==
    IF nodesHas(ns, name) THEN ns ELSE <<createNode(name, colorsGet(cs, name))>> \o ns

\* if (!nodes.has(name)) nodes.set(name, createNode(name, nodeColors.get(name)))
ensureNode(ns, cs, name) ==
    IF nodesHas(ns, name) THEN ns ELSE Append(ns, createNode(name, colorsGet(cs, name)))
pushLink(st, ns, parsedFlow) ==
    [st EXCEPT !.nodes = ns,
               !.links = Append(@, [source |-> nodesGet(ns, parsedFlow.sourceName).id,
                                    target |-> nodesGet(ns, parsedFlow.targetName).id,
                                    value |-> parsedFlow.value,
                                    previousValue |-> parsedFlow.previousValue,
                                    comparisonValue |-> parsedFlow.comparisonValue])]
\* nodes and links after a parsed flow
addFlow(st, parsedFlow) ==
    pushLink(st, ensureNode(ensureNode(st.nodes, st.nodeColors, parsedFlow.sourceName),
                            st.nodeColors, parsedFlow.targetName),
             parsedFlow)

addParsedFlow(st, parsedFlow) ==
    IF parsedFlow # <<>> THEN addFlow(st, parsedFlow[1]) ELSE st
setColor(st, nodeName, hex) ==
    [st EXCEPT !.nodeColors = colorsSet(@, nodeName,
                                        IF startsWith(hex, <<"#">>) THEN hex
                                        ELSE <<"#">> \o hex)]
colorOrFlow(st, trimmed, ks) ==
    IF ks # {}
    THEN setColor(st, trim(Take(trimmed, SetMin(ks))), colorMatchAt(trimmed, SetMin(ks))[1])
    ELSE addParsedFlow(st, parseFlowLine(trimmed))
parseTrimmedLine(st, trimmed) ==
    IF isSkipped(trimmed) THEN st
    ELSE colorOrFlow(st, trimmed,
                     {k \in 1..Len(trimmed) : colorMatchAt(trimmed, k) # <<>>})
\* st = [nodes, links, nodeColors]; one iteration of the loop
parseDSLLine(st, ln) == parseTrimmedLine(st, trim(ln))

(***************************************************************************)
(* parseDSL: aggregation of duplicate links                                *)
(***************************************************************************)
linkKey(link) == link.source \o <<"|">> \o link.target

\* a merge that sums the previous values and leaves the label in place
mergeLinkKeepLabel(existing, link) ==
    IF existing.previousValue # <<>> /\ link.previousValue # <<>>
    THEN [existing EXCEPT !.value = Plus(@, link.value),
                          !.previousValue = <<Plus(@[1], link.previousValue[1])>>]
    ELSE [existing EXCEPT !.value = Plus(@, link.value)]

\* existing.value += link.value, and the previous values when both are defined
mergeLink(existing, link) ==
    IF existing.previousValue # <<>> /\ link.previousValue # <<>>
    THEN [existing EXCEPT !.value = Plus(@, link.value),
                          !.previousValue = <<Plus(@[1], link.previousValue[1])>>,
                          !.comparisonValue = <<>>]
    ELSE [existing EXCEPT !.value = Plus(@, link.value)]

\* an aggregation step that never finds the key
aggregateNever(st, i, hit) ==
    [st EXCEPT !.uniqueLinks = Append(@, [key |-> linkKey(st.links[i]), ref |-> i])]

\* uniqueLinks is a Map key -> link object; the objects are those of `links`, so an
\* entry holds the index of its object and a merge updates it in place.
aggregateAt(st, i, hit) ==
    IF hit # {}
    THEN [st EXCEPT !.links[st.uniqueLinks[SetMin(hit)].ref] = mergeLink(@, st.links[i])]
    ELSE [st EXCEPT !.uniqueLinks = Append(@, [key |-> linkKey(st.links[i]), ref |-> i])]
\* st = [links, uniqueLinks]; one iteration, for links[i]
aggregateLink(st, i) ==
    aggregateAt(st, i, {j \in 1..Len(st.uniqueLinks) :
                          st.uniqueLinks[j].key = linkKey(st.links[i])})

\* the values of the map in reverse insertion order
processedLinksReversed(ls, uniq) == [j \in 1..Len(uniq) |-> ls[uniq[Len(uniq) + 1 - j].ref]]

\* Array.from(uniqueLinks.values())
processedLinksOf(ls, uniq) == [j \in 1..Len(uniq) |-> ls[uniq[j].ref]]

(***************************************************************************)
(* parseDSL: the cycle filter                                              *)
(***************************************************************************)
\* validGraph: Map<string, Set<string>> as a sequence of [from, to: sequence]
neighbors(graph, from) ==
    IF \E i \in 1..Len(graph) : graph[i].from = from
    THEN graph[CHOOSE i \in 1..Len(graph) : graph[i].from = from].to
    ELSE <<>>

\* hasPath with its shared visited set: the result and the set after the call
RECURSIVE hasPathVisit(_, _, _, _)
RECURSIVE hasPathScan(_, _, _, _)
hasPathNext(graph, nexts, to, r) ==
    IF r.found THEN r ELSE hasPathScan(graph, Tail(nexts), to, r.visited)
hasPathVisit(graph, from, to, visited) ==
    IF from = to THEN [found |-> TRUE, visited |-> visited]
    ELSE hasPathScan(graph, neighbors(graph, from), to, visited \cup {from})
hasPathScan(graph, nexts, to, visited) ==
    IF nexts = <<>> THEN [found |-> FALSE, visited |-> visited]
    ELSE IF nexts[1] \in visited THEN hasPathScan(graph, Tail(nexts), to, visited)
    ELSE hasPathNext(graph, nexts, to, hasPathVisit(graph, nexts[1], to, visited))

\* a reachability test that looks one edge ahead only
hasPathDirect(graph, from, to) ==
    from = to \/ \E j \in 1..Len(neighbors(graph, from)) : neighbors(graph, from)[j] = to

hasPath(graph, from, to) == hasPathVisit(graph, from, to, {}).found

\* if (!validGraph.has(s)) validGraph.set(s, new Set()); validGraph.get(s).add(t)
graphAdd(graph, s, t) ==
    IF \E i \in 1..Len(graph) : graph[i].from = s
    THEN [i \in 1..Len(graph) |->
            IF graph[i].from = s /\ ~\E j \in 1..Len(graph[i].to) : graph[i].to[j] = t
            THEN [graph[i] EXCEPT !.to = Append(@, t)] ELSE graph[i]]
    ELSE Append(graph, [from |-> s, to |-> <<t>>])

\* a filter condition without the path test
isSafeNoPath(graph, link) == link.source # link.target

\* a filter condition that also rejects a link whose endpoints are already joined
isSafeNoShortcut(graph, link) ==
    /\ link.source # link.target
    /\ ~hasPath(graph, link.target, link.source)
    /\ ~hasPath(graph, link.source, link.target)

\* whether the loop keeps the link
isSafe(graph, link) ==
    link.source # link.target /\ ~hasPath(graph, link.target, link.source)

\* a filter step that keeps every link
filterKeepAll(st, link) ==
    [validGraph |-> graphAdd(st.validGraph, link.source, link.target),
     safeLinks |-> Append(st.safeLinks, link)]

\* st = [validGraph, safeLinks]; one iteration of the loop
filterLink(st, link) ==
    IF isSafe(st.validGraph, link)
    THEN [validGraph |-> graphAdd(st.validGraph, link.source, link.target),
          safeLinks |-> Append(st.safeLinks, link)]
    ELSE st

(***************************************************************************)
(* serializeToDSL and parseCSV                                             *)
(***************************************************************************)
Null == [isNull |-> TRUE, nodes |-> <<>>, links |-> <<>>]
Data(ns, ls) == [isNull |-> FALSE, nodes |-> ns, links |-> ls]

\* data.nodes.find(n => n.id === id): the name of the first node with the id, else the id
resolveName(ns, id) ==
    IF \E i \in 1..Len(ns) : ns[i].id = id
    THEN ns[SetMin({i \in 1..Len(ns) : ns[i].id = id})].name
    ELSE id

\* a bracket content that prefers the label to the previous value
serializeContentLabelFirst(link) ==
    NumToStr(link.value)
    \o (IF link.comparisonValue # <<>> /\ link.comparisonValue[1] # <<>>
        THEN <<",", " ">> \o link.comparisonValue[1]
        ELSE IF link.previousValue # <<>> THEN <<",", " ">> \o NumToStr(link.previousValue[1])
        ELSE <<>>)

\* the text between the brackets
serializeContent(link) ==
    NumToStr(link.value)
    \o (IF link.previousValue # <<>> THEN <<",", " ">> \o NumToStr(link.previousValue[1])
        ELSE IF link.comparisonValue # <<>> /\ link.comparisonValue[1] # <<>>
             THEN <<",", " ">> \o link.comparisonValue[1]
        ELSE <<>>)
serializeLink(ns, link) ==
    resolveName(ns, link.source) \o <<" ", "[">> \o serializeContent(link)
    \o <<"]", " ">> \o resolveName(ns, link.target)

hasColor(n) == n.color # <<>> /\ n.color[1] # <<>>
serializeLines(colored, ns, ls) ==
    [i \in 1..Len(colored) |-> colored[i].name \o <<" ", ":">> \o colored[i].color[1]]
    \o (IF colored # <<>> THEN <<<<>>>> ELSE <<>>)
    \o [i \in 1..Len(ls) |-> serializeLink(ns, ls[i])]
serializeToDSL(data) ==
    join(serializeLines(SelectSeq(data.nodes, hasColor), data.nodes, data.links), <<"\n">>)

\* parseCSV: lines = text.split('\n').filter((l) => l.trim())
notBlank(l) == trim(l) # <<>>
csvLines(txt) == SelectSeq(split(txt, "\n"), notBlank)

csvHeaderTest(header) ==
    includes(header, <<"f", "r", "o", "m">>)
    \/ includes(header, <<"s", "o", "u", "r", "c", "e">>)
    \/ includes(header, <<"t", "o">>)
    \/ includes(header, <<"t", "a", "r", "g", "e", "t">>)
csvHasHeader(firstLine) == csvHeaderTest(toLowerCase(firstLine))

csvPush(st, ns, sourceName, targetName, value, comparison) ==
    [nodes |-> ns,
     links |-> Append(st.links, [source |-> sourceName, target |-> targetName,
                                 value |-> value,
                                 previousValue |-> comparison.previousValue,
                                 comparisonValue |-> comparison.comparisonValue])]
csvFlow(st, sourceName, targetName, value, compStr) ==
    IF sourceName = <<>> \/ targetName = <<>> \/ isNaN(value) \/ LessOrEqualZero(value)
    THEN st
    ELSE csvPush(st, ensureNode(ensureNode(st.nodes, <<>>, sourceName), <<>>, targetName),
                 sourceName, targetName, value, parseComparisonFields(value, compStr))
csvColumnsRow(st, cols) ==
    IF Len(cols) < 3 THEN st
    ELSE csvFlow(st, trim(cols[1]), trim(cols[2]), parseNumber(cols[3]),
                 IF Len(cols) >= 4 THEN <<trim(cols[4])>> ELSE <<>>)
\* st = [nodes, links]; one iteration of parseCSV's loop over the data lines
parseCSVRow(st, ln) == csvColumnsRow(st, parseCSVLine(ln))

(***************************************************************************)
(* SpreadsheetEditor: commitChanges and handleValueBlur                    *)
(***************************************************************************)
\* the digits of an integer with a comma before every group of three
RECURSIVE groupDigits(_)
groupDigits(ds) ==
    IF Len(ds) <= 3 THEN ds
    ELSE groupDigits(Take(ds, Len(ds) - 3)) \o <<",">> \o Drop(ds, Len(ds) - 3)
\* the hundredths of a positive number, rounded to the nearest, a tie upwards
hundredths(num) ==
    IF num.e >= -2 THEN num.m * Pow10(num.e + 2)
    ELSE (num.m + 5 * Pow10(-num.e - 3)) \div Pow10(-num.e - 2)
fractionDigits(h) ==
    IF h = 0 THEN <<>>
    ELSE IF h % 10 = 0 THEN <<".", Digits[(h \div 10) + 1]>>
    ELSE <<".", Digits[(h \div 10) + 1], Digits[(h % 10) + 1]>>
localeString(h) == groupDigits(IntToStr(h \div 100)) \o fractionDigits(h % 100)
\* num.toLocaleString('en-US', { maximumFractionDigits: 2 }) for num > 0
toLocaleString(num) == localeString(hundredths(num))

\* a GridRow, and the blank row the editor keeps at the end
GridRow(source, target, value, comparison) ==
    [source |-> source, target |-> target, value |-> value, comparison |-> comparison,
     isValid |-> TRUE]
BlankRow == GridRow(<<>>, <<>>, <<>>, <<>>)

\* updatedRows[index] = { ...updatedRows[index], value: formatted }
withValue(rs, index, formatted) == [rs EXCEPT ![index].value = formatted]
\* handleCellChange(index, 'value', value): the rows it hands to setRows
handleCellChange(rs, index, value) ==
    IF index = Len(rs) /\ trim(value) # <<>>
    THEN Append([rs EXCEPT ![index].value = value, ![index].isValid = TRUE], BlankRow)
    ELSE [rs EXCEPT ![index].value = value, ![index].isValid = TRUE]

isCommitted(r) == trim(r.source) # <<>> /\ trim(r.target) # <<>> /\ trim(r.value) # <<>>
commitContent(val, comp) ==
    IF comp # <<>> /\ comp[1] # <<>> THEN val \o <<",", " ">> \o comp[1] ELSE val
commitLine(row) ==
    row.source \o <<" ", "[">> \o commitContent(row.value, sanitizeComparisonLabel(<<row.comparison>>))
    \o <<"]", " ">> \o row.target
commitLines(validRows) == [i \in 1..Len(validRows) |-> commitLine(validRows[i])]
\* the text commitChanges dispatches as the new DSL
commitChanges(currentRows) == join(commitLines(SelectSeq(currentRows, isCommitted)), <<"\n">>)

(***************************************************************************)
(* The input texts                                                         *)
(***************************************************************************)
\* the largest number of lines of an input text
MaxLines == 3

Bracket(source, content, target) == source \o <<" ", "[">> \o content \o <<"]", " ">> \o target

\* lines over three one-letter names (every edge, self-loops included), two names
\* that differ by case only, and two lines whose names hold the key separator
GraphNames == {<<"A">>, <<"B">>, <<"C">>}
GraphLines ==
    {Bracket(s, <<"1">>, t) : s \in GraphNames, t \in GraphNames}
    \cup {Bracket(<<"a", "|", "b">>, <<"1">>, <<"c">>),
          Bracket(<<"a">>, <<"2">>, <<"b", "|", "c">>)}

\* one flow from A to B with value token v and optional comparison token c, in
\* each notation
WithToken(sep, c) == IF c = <<>> THEN <<>> ELSE sep \o c[1]
NotationForms(v, c) ==
    <<Bracket(<<"A">>, v \o WithToken(<<",", " ">>, c), <<"B">>),
      <<"A", " ", "-", ">", " ", "B", " ">> \o v \o WithToken(<<" ">>, c),
      <<"A", " ", "-", ">", " ", "B", " ", " ">> \o v \o WithToken(<<" ", " ">>, c),
      <<"A", "\t", "B", "\t">> \o v \o WithToken(<<"\t">>, c),
      <<"A", ",", "B", ",">> \o v \o WithToken(<<",">>, c),
      <<"A", " ", " ", "B", " ", " ">> \o v \o WithToken(<<" ", " ">>, c)>>
Notations(v, c) == {NotationForms(v, c)[n] : n \in 1..6}
\* the comma-separated form, the one parseCSV reads
CommaForm(v, c) == NotationForms(v, c)[5]

ValueTokens == {<<"1", "0", "0">>, <<"0">>, <<"-", "5">>, <<"a", "b", "c">>, <<"1", ".", "5">>}
InvalidTokens ==
    {<<"N", "a", "N">>, <<"n", "u", "l", "l">>,
     <<"U", "N", "D", "E", "F", "I", "N", "E", "D">>, <<"n", "/", "a">>, <<"N", "A">>,
     <<"N", "o", "n", "e">>, <<"-">>, <<"-", "-">>}
ComparisonTokens ==
    InvalidTokens \cup {<<>>, <<"8", "0">>, <<"+", "1", "0", "%">>}

TokenLines ==
    UNION {Notations(v, c) : v \in ValueTokens, c \in {<<>>, <<<<"5">>>>}}
    \cup UNION {Notations(<<"1", "0", "0">>, <<c>>) : c \in ComparisonTokens}
    \cup Notations(<<"2", "9", "9">>, <<<<"3", "0", "0">>>>)
    \cup {<<>>, <<"/", "/", " ", "n", "o", "t", "e">>}

HeaderLine == <<"F", "r", "o", "m", ",", "T", "o", ",", "V", "a", "l", "u", "e",
               ",", "C", "o", "m", "p", "a", "r", "i", "s", "o", "n">>
ContextLines == {HeaderLine, <<"B", ",", "C", ",", "7">>}

TextsOver(S, n) == UNION {[1..k -> S] : k \in 0..n}
InsertAt(ls, i, ln) == Take(ls, i) \o <<ln>> \o Drop(ls, i)

GraphTexts == {join(ls, <<"\n">>) : ls \in TextsOver(GraphLines, MaxLines)}
TokenTexts ==
    UNION {{join(InsertAt(ls, i, ln), <<"\n">>) : i \in 0..Len(ls), ln \in TokenLines} :
           ls \in TextsOver(ContextLines, MaxLines - 1)}

\* a text of one line, and a parseCSV document of a header and one row
HeaderAnd(row) == HeaderLine \o <<"\n">> \o row

\* comparison tokens that are labels, that resolve to zero or that do not resolve
LabelTokens ==
    {<<"+", "1", "0", "%">>, <<"-", "5", "%">>, <<"-", "3">>, <<"5", "0", "%">>,
     <<"+">>, <<"0">>, <<"a", "b", "c">>, <<"0", "k">>, <<"?", "!">>}
ResolverTexts == UNION {Notations(<<"1", "0", "0">>, <<c>>) : c \in LabelTokens}
ResolverRows == {HeaderAnd(CommaForm(<<"1", "0", "0">>, <<c>>)) : c \in LabelTokens}

\* display names for the category heuristic, each as the source of one flow
CategoryNames ==
    {<<"R", "e", "v", "e", "n", "u", "e">>, <<"S", "a", "l", "e", "s">>,
     <<"I", "n", "c", "o", "m", "e">>,
     <<"N", "e", "t", " ", "I", "n", "c", "o", "m", "e">>,
     <<"C", "o", "s", "t", " ", "o", "f", " ", "S", "a", "l", "e", "s">>,
     <<"I", "n", "c", "o", "m", "e", " ", "T", "a", "x">>,
     <<"O", "p", "e", "r", "a", "t", "i", "n", "g", " ", "E", "x", "p", "e", "n", "s", "e", "s">>,
     <<"C", "O", "G", "S">>,
     <<"D", "e", "p", "r", "e", "c", "i", "a", "t", "i", "o", "n">>,
     <<"A", "m", "o", "r", "t", "i", "z", "a", "t", "i", "o", "n">>,
     <<"G", "r", "o", "s", "s", " ", "P", "r", "o", "f", "i", "t">>,
     <<"E", "a", "r", "n", "i", "n", "g", "s">>, <<"E", "B", "I", "T", "D", "A">>,
     <<"C", "a", "s", "h">>}
CategoryTexts == {Bracket(name, <<"1">>, <<"B">>) : name \in CategoryNames}

\* two names that differ in their inner blanks only
SlugTexts ==
    {<<"N", "e", "t", " ", " ", "I", "n", "c", "o", "m", "e", " ", "[", "1", "]", " ", "B", "\n", "N", "e", "t", " ", "I", "n", "c", "o", "m", "e", " ", "[", "1", "]", " ", "B">>}

\* parseCSV documents with a cycle, a self-loop and a repeated row
CsvGraphTexts ==
    {<<"A", ",", "B", ",", "1", "\n", "B", ",", "A", ",", "1">>,
     <<"A", ",", "A", ",", "1", "\n", "A", ",", "B", ",", "1">>,
     <<"A", ",", "B", ",", "1", "\n", "A", ",", "B", ",", "2">>}

\* a parseCSV document without a header whose first row names a node "Store"
StoreRowTexts ==
    {<<"S", "t", "o", "r", "e", ",", "B", ",", "5", "\n", "B", ",", "C", ",", "7">>}

\* value tokens for parseNumber, each in a tab-separated line from A to B
TabLine(v) == NotationForms(v, <<>>)[4]
NumberTokens ==
    {<<"1", "0", "0">>, <<"1", "2", "3", "4", ".", "5", "6">>,
     <<"1", ",", "2", "3", "4", ".", "5", "6">>, <<"$", "1", ",", "2", "3", "4">>,
     <<"1", "0", "k">>, <<"0", ".", "5", "k">>, <<"5", "M">>, <<"1", "b">>,
     <<"1", ".", "5", "b", "n">>, <<"5", " ", "m", "i", "l", "l", "i", "o", "n">>,
     <<"2", " ", "B", "i", "l", "l", "i", "o", "n">>, <<"2", " ", "K">>}
MalformedNumberTokens ==
    {<<"a", "b", "c">>, <<"1", "2", "a", "b", "c">>, <<"5", "x">>,
     <<"1", "0", "k", "k">>, <<"1", ".", "2", ".", "3">>, <<"$">>, <<"k">>, <<".">>}
NumberTexts == {TabLine(v) : v \in NumberTokens \cup MalformedNumberTokens}

\* color directives for A (3 and 6 digits, without and with #) and flows that name A
ColorDirectives ==
    {[line |-> <<"A", " ", ":", "f", "0", "0">>, name |-> <<"A">>, color |-> <<"#", "f", "0", "0">>],
     [line |-> <<"A", " ", ":", "#", "0", "0", "f", "f", "0", "0">>, name |-> <<"A">>, color |-> <<"#", "0", "0", "f", "f", "0", "0">>]}
ColorFlows ==
    {[line |-> <<"A", " ", "[", "1", "]", " ", "B">>, names |-> {<<"A">>, <<"B">>}],
     [line |-> <<"C", " ", "[", "1", "]", " ", "A">>, names |-> {<<"C">>, <<"A">>}]}
ColorLines == {d.line : d \in ColorDirectives} \cup {f.line : f \in ColorFlows}
ColorTexts == {join(ls, <<"\n">>) : ls \in TextsOver(ColorLines, MaxLines)}

\* lines of the shape `name :hex` whose hex part has not 3 or 6 hex digits; the
\* name is a plain name or reads as a flow in the bracket, arrow or columns notation
MalformedHexParts == {<<"f", "f">>, <<"#", "1", "2", "3", "4", "5">>, <<"g", "g", "g", "g", "g", "g">>}
PlainColorNames == {<<"A">>, <<"N", "e", "t", " ", "I", "n", "c", "o", "m", "e">>}
FlowLikeColorNames ==
    {<<"A", " ", "[", "1", "]", " ", "B">>, <<"A", " ", "-", ">", " ", "B", " ", "1", "0", "0">>,
     <<"A", " ", " ", "B", " ", " ", "5">>}
MalformedColorLine(name, hex) == name \o <<" ", ":">> \o hex
MalformedColorLines ==
    {MalformedColorLine(name, hex) :
       name \in PlainColorNames \cup FlowLikeColorNames, hex \in MalformedHexParts}

\* declarations of one pair with a previous value, with a label and with neither,
\* and one declaration of another pair
MergeLines ==
    {<<"A", " ", "[", "1", "0", "0", ",", " ", "8", "0", "]", " ", "B">>,
     <<"A", " ", "[", "5", "0", ",", " ", "4", "0", "]", " ", "B">>,
     <<"A", " ", "[", "3", "0", "]", " ", "B">>,
     <<"A", " ", "[", "2", "0", ",", " ", "+", "5", "%", "]", " ", "B">>,
     <<"B", " ", "[", "1", "0", ",", " ", "5", "]", " ", "C">>}
MergeTexts == {join(ls, <<"\n">>) : ls \in TextsOver(MergeLines, MaxLines)}

\* arrow lines `S -> T v` and `S -> T v c` with one blank between the fields
ArrowSources == {<<"A">>, <<"N", "e", "t", " ", "I", "n", "c", "o", "m", "e">>}
ArrowTargets == {<<"B">>, <<"G", "r", "o", "s", "s", " ", "P", "r", "o", "f", "i", "t">>}
ArrowValues == {<<"1", "0", "0">>, <<"1", ".", "5", "k">>}
ArrowComparisons == {<<>>, <<<<"8", "0">>>>, <<<<"+", "1", "0", "%">>>>}
ArrowLine(s, t, v, c) == s \o <<" ", "-", ">", " ">> \o t \o <<" ">> \o v \o WithToken(<<" ">>, c)
ArrowLines ==
    {ArrowLine(s, t, v, c) :
       s \in ArrowSources, t \in ArrowTargets, v \in ArrowValues, c \in ArrowComparisons}

\* grids of the editor: a row from A to B with a value cell and a comparison cell,
\* with the blank trailing row or behind a row from B to C
GridValues ==
    {<<"1", "2", "0", "0">>, <<"5", "0", "0">>, <<"1", ".", "5", "k">>,
     <<"1", "2", "3", "4", ".", "5">>, <<"1", ",", "2", "0", "0">>,
     <<"0", ".", "2", "5">>, <<"a", "b", "c">>, <<>>}
GridComparisons == {<<>>, <<"8", "0">>, <<"+", "5", "%">>, <<"n", "/", "a">>}
GridInputs ==
    UNION {{<<GridRow(<<"A">>, <<"B">>, v, c), BlankRow>>,
            <<GridRow(<<"B">>, <<"C">>, <<"7">>, <<>>), GridRow(<<"A">>, <<"B">>, v, c)>>} :
           v \in GridValues, c \in GridComparisons}

\* the further texts: a line or two each for parseDSL, a few rows each for parseCSV
LineTexts ==
    ResolverTexts \cup CategoryTexts \cup SlugTexts \cup NumberTexts \cup ColorTexts
    \cup MalformedColorLines \cup MergeTexts \cup ArrowLines
RowTexts == ResolverRows \cup CsvGraphTexts \cup StoreRowTexts

(***************************************************************************)
(* The state machine: one call of parseDSL or parseCSV, step by step, and  *)
(* for parseDSL a second call on the serialized result                     *)
(***************************************************************************)
Init ==
    /\ \/ /\ mode = "dsl" /\ text \in GraphTexts \cup TokenTexts \cup LineTexts
          /\ pc = "start" /\ rows = <<>>
       \/ /\ mode = "csv" /\ text \in TokenTexts \cup RowTexts
          /\ pc = "start" /\ rows = <<>>
       \/ /\ mode = "grid" /\ text = <<>>
          /\ pc = "grid" /\ rows \in GridInputs
    /\ lines = <<>>
    /\ lineNo = 0
    /\ hasHeader = FALSE
    /\ nodes = <<>>
    /\ links = <<>>
    /\ nodeColors = <<>>
    /\ uniqueLinks = <<>>
    /\ idx = 0
    /\ validGraph = <<>>
    /\ safeLinks = <<>>
    /\ result = Null
    /\ pass = 1
    /\ first = Null

\* const lines = text.split('\n')
DslStart ==
    /\ mode = "dsl" /\ pc = "start"
    /\ lines' = split(text, "\n")
    /\ pc' = "lines"
    /\ UNCHANGED <<mode, text, lineNo, hasHeader, nodes, links, nodeColors, uniqueLinks,
                   idx, validGraph, safeLinks, result, pass, first, rows>>

DslLineTo(st) ==
    /\ nodes' = st.nodes
    /\ links' = st.links
    /\ nodeColors' = st.nodeColors
\* one iteration of for (const line of lines)
DslLine ==
    /\ mode = "dsl" /\ pc = "lines" /\ lineNo < Len(lines)
    /\ DslLineTo(parseDSLLine([nodes |-> nodes, links |-> links, nodeColors |-> nodeColors],
                              lines[lineNo + 1]))
    /\ lineNo' = lineNo + 1
    /\ UNCHANGED <<mode, pc, text, lines, hasHeader, uniqueLinks, idx, validGraph,
                   safeLinks, result, pass, first, rows>>

\* the step after the line loop without the early return
DslNoNullCheck ==
    /\ mode = "dsl" /\ pc = "lines" /\ lineNo = Len(lines)
    /\ pc' = "aggregate"
    /\ UNCHANGED <<mode, text, lines, lineNo, hasHeader, nodes, links, nodeColors,
                   uniqueLinks, idx, validGraph, safeLinks, result, pass, first, rows>>

\* if (nodes.size === 0 || links.length === 0) return null
DslNullCheck ==
    /\ mode = "dsl" /\ pc = "lines" /\ lineNo = Len(lines)
    /\ IF nodes = <<>> \/ links = <<>>
       THEN pc' = "done" /\ result' = Null
       ELSE pc' = "aggregate" /\ result' = result
    /\ UNCHANGED <<mode, text, lines, lineNo, hasHeader, nodes, links, nodeColors,
                   uniqueLinks, idx, validGraph, safeLinks, pass, first, rows>>

DslAggregateTo(st) ==
    /\ links' = st.links
    /\ uniqueLinks' = st.uniqueLinks
\* one iteration of for (const link of links) of the aggregation
DslAggregate ==
    /\ pc = "aggregate" /\ idx < Len(links)
    /\ DslAggregateTo(aggregateLink([links |-> links, uniqueLinks |-> uniqueLinks], idx + 1))
    /\ idx' = idx + 1
    /\ UNCHANGED <<mode, pc, text, lines, lineNo, hasHeader, nodes, nodeColors,
                   validGraph, safeLinks, result, pass, first, rows>>

\* const processedLinks = Array.from(uniqueLinks.values())
processedLinks == processedLinksOf(links, uniqueLinks)
DslProcessed ==
    /\ pc = "aggregate" /\ idx = Len(links)
    /\ pc' = "filter"
    /\ idx' = 0
    /\ UNCHANGED <<mode, text, lines, lineNo, hasHeader, nodes, links, nodeColors,
                   uniqueLinks, validGraph, safeLinks, result, pass, first, rows>>

DslFilterTo(st) ==
    /\ validGraph' = st.validGraph
    /\ safeLinks' = st.safeLinks
\* one iteration of for (const link of processedLinks) of the cycle filter
DslFilter ==
    /\ pc = "filter" /\ idx < Len(uniqueLinks)
    /\ DslFilterTo(filterLink([validGraph |-> validGraph, safeLinks |-> safeLinks],
                              processedLinks[idx + 1]))
    /\ idx' = idx + 1
    /\ UNCHANGED <<mode, pc, text, lines, lineNo, hasHeader, nodes, links, nodeColors,
                   uniqueLinks, result, pass, first, rows>>

\* return { nodes: Array.from(nodes.values()), links: safeLinks }
DslReturn ==
    /\ pc = "filter" /\ idx = Len(uniqueLinks)
    /\ result' = Data(nodes, safeLinks)
    /\ pc' = "done"
    /\ UNCHANGED <<mode, text, lines, lineNo, hasHeader, nodes, links, nodeColors,
                   uniqueLinks, idx, validGraph, safeLinks, pass, first, rows>>

\* parseCSV up to its loop: the non-blank lines, the early return, the header test
CsvStartTo(ls) ==
    /\ lines' = ls
    /\ IF Len(ls) < 2
       THEN pc' = "done" /\ hasHeader' = FALSE /\ lineNo' = 0
       ELSE /\ pc' = "rows"
            /\ hasHeader' = csvHasHeader(ls[1])
            /\ lineNo' = IF csvHasHeader(ls[1]) THEN 1 ELSE 0
CsvStart ==
    /\ mode = "csv" /\ pc = "start"
    /\ CsvStartTo(csvLines(text))
    /\ result' = Null
    /\ UNCHANGED <<mode, text, nodes, links, nodeColors, uniqueLinks, idx, validGraph,
                   safeLinks, pass, first, rows>>

CsvRowTo(st) ==
    /\ nodes' = st.nodes
    /\ links' = st.links
\* one iteration of for (const line of dataLines)
CsvRow ==
    /\ mode = "csv" /\ pc = "rows" /\ lineNo < Len(lines)
    /\ CsvRowTo(parseCSVRow([nodes |-> nodes, links |-> links], lines[lineNo + 1]))
    /\ lineNo' = lineNo + 1
    /\ UNCHANGED <<mode, pc, text, lines, hasHeader, nodeColors, uniqueLinks, idx,
                   validGraph, safeLinks, result, pass, first, rows>>

\* if (nodes.size === 0 || links.length === 0) return null; return { nodes, links }
CsvReturn ==
    /\ mode = "csv" /\ pc = "rows" /\ lineNo = Len(lines)
    /\ result' = IF nodes = <<>> \/ links = <<>> THEN Null ELSE Data(nodes, links)
    /\ pc' = "done"
    /\ UNCHANGED <<mode, text, lines, lineNo, hasHeader, nodes, links, nodeColors,
                   uniqueLinks, idx, validGraph, safeLinks, pass, first, rows>>

\* serializeToDSL on the graph parseDSL returned; its output is the text of a
\* second call of parseDSL
Serialize ==
    /\ mode = "dsl" /\ pc = "done" /\ pass = 1 /\ ~result.isNull
    /\ first' = result
    /\ text' = serializeToDSL(result)
    /\ pass' = 2
    /\ pc' = "start"
    /\ lines' = <<>>
    /\ lineNo' = 0
    /\ nodes' = <<>>
    /\ links' = <<>>
    /\ nodeColors' = <<>>
    /\ uniqueLinks' = <<>>
    /\ idx' = 0
    /\ validGraph' = <<>>
    /\ safeLinks' = <<>>
    /\ result' = Null
    /\ UNCHANGED <<mode, hasHeader, rows>>

\* commitChanges(currentRows): the text goes to parseDSL; `shown` is the grid state
GridCommit(currentRows, shown) ==
    /\ text' = commitChanges(currentRows)
    /\ rows' = shown
    /\ mode' = "dsl"
    /\ pc' = "start"
    /\ UNCHANGED <<lines, lineNo, hasHeader, nodes, links, nodeColors, uniqueLinks, idx,
                   validGraph, safeLinks, result, pass, first>>

\* handleBlur of the source, target and comparison cells: commitChanges(rows)
HandleBlur ==
    /\ mode = "grid" /\ pc = "grid"
    /\ GridCommit(rows, rows)

ValueBlurTo(index, num) ==
    IF ~isNaN(num) /\ GreaterThanZero(num)
    THEN GridCommit(withValue(rows, index, toLocaleString(num)),
                    handleCellChange(rows, index, toLocaleString(num)))
    ELSE GridCommit(rows, rows)
\* handleValueBlur(index, rawValue) of a value cell, rawValue being the cell's text
HandleValueBlur ==
    /\ mode = "grid" /\ pc = "grid"
    /\ \E index \in 1..Len(rows) : ValueBlurTo(index, parseNumber(rows[index].value))

Next ==
    \/ HandleBlur
    \/ HandleValueBlur
    \/ DslStart
    \/ DslLine
    \/ DslNullCheck
    \/ DslAggregate
    \/ DslProcessed
    \/ DslFilter
    \/ DslReturn
    \/ CsvStart
    \/ CsvRow
    \/ CsvReturn
    \/ Serialize

Spec == Init /\ [][Next]_vars

(***************************************************************************)
(* Properties                                                              *)
(***************************************************************************)
PairOf(link) == <<link.source, link.target>>
Pairs(ls) == {PairOf(ls[i]) : i \in 1..Len(ls)}
GraphPairs(graph) ==
    UNION {{<<graph[i].from, graph[i].to[j]>> : j \in 1..Len(graph[i].to)} :
           i \in 1..Len(graph)}
NodeNames(ns) == {ns[i].name : i \in 1..Len(ns)}
ValuedPairs(ls) == {<<ls[i].source, ls[i].target, ls[i].value>> : i \in 1..Len(ls)}

\* reachability over a set of pairs, by closure
ReachStep(E, S) == S \cup {e[2] : e \in {f \in E : f[1] \in S}}
RECURSIVE ReachFrom(_, _)
ReachGrow(E, S, T) == IF T = S THEN S ELSE ReachFrom(E, T)
ReachFrom(E, S) == ReachGrow(E, S, ReachStep(E, S))
\* a directed path (possibly empty) from a to b
Path(E, a, b) == b \in ReachFrom(E, {a})
\* no self-loop and no directed cycle
Acyclic(E) == \A e \in E : ~Path(E, e[2], e[1])

DslDone == mode = "dsl" /\ pc = "done"

\* the flow an input line declares, if any (comments, blanks and color lines: none)
DeclaredOn(trimmed) ==
    IF isSkipped(trimmed) \/ \E k \in 1..Len(trimmed) : colorMatchAt(trimmed, k) # <<>>
    THEN <<>>
    ELSE parseFlowLine(trimmed)
DeclaredFlow(ln) == DeclaredOn(trim(ln))

\* the line the loop has just consumed, if any, in the call on the input text
JustRead ==
    IF pass = 1 /\ pc \in {"lines", "rows"} /\ lineNo >= 1
       /\ ~(mode = "csv" /\ hasHeader /\ lineNo = 1)
    THEN <<lines[lineNo]>>
    ELSE <<>>
LastLink == links[Len(links)]
\* the notations the entry point in use reads
ReadableForms(v, c) == IF mode = "csv" THEN {CommaForm(v, c)} ELSE Notations(v, c)

\* C1: the accepted edges are free of directed cycles and of self-loops after
\* every step of the cycle filter, the adjacency structure holds exactly the
\* accepted edges, and so the graph parseDSL returns is acyclic.
C1_Acyclic ==
    /\ Acyclic(Pairs(safeLinks))
    /\ GraphPairs(validGraph) = Pairs(safeLinks)
    /\ (mode = "dsl" /\ ~result.isNull) => Acyclic(Pairs(result.links))

\* a returned graph with two edges from which a cycle-closing edge was left out
C1_CycleRejected ==
    /\ DslDone /\ pass = 1 /\ ~result.isNull
    /\ Len(result.links) >= 2
    /\ \E i \in 1..Len(uniqueLinks) :
          /\ processedLinks[i].source # processedLinks[i].target
          /\ PairOf(processedLinks[i]) \notin Pairs(result.links)

\* C2: round trip: parseDSL on the serialized result of parseDSL is non-null and
\* has the same node names, the same (source, target) pairs and the same values.
C2_RoundTrip ==
    (DslDone /\ pass = 2) =>
        /\ ~result.isNull
        /\ NodeNames(result.nodes) = NodeNames(first.nodes)
        /\ Pairs(result.links) = Pairs(first.links)
        /\ ValuedPairs(result.links) = ValuedPairs(first.links)

\* C3: no two links of a graph returned by parseDSL (nor of the accepted list
\* while it is built) have the same (source id, target id) pair.
C3_Dedup ==
    /\ \A i, j \in 1..Len(safeLinks) :
          PairOf(safeLinks[i]) = PairOf(safeLinks[j]) => i = j
    /\ (mode = "dsl" /\ ~result.isNull) =>
          \A i, j \in 1..Len(result.links) :
              PairOf(result.links[i]) = PairOf(result.links[j]) => i = j

\* a returned graph holding a pair that two input lines declared
C3_DuplicateDeclared ==
    /\ DslDone /\ pass = 1 /\ ~result.isNull
    /\ \E i, j \in 1..Len(links) :
          /\ i < j
          /\ PairOf(links[i]) = PairOf(links[j])
          /\ PairOf(links[i]) \in Pairs(result.links)

Zero == Normalize(0, 0)
DeclaredValue(flow, s, t) ==
    IF flow # <<>> /\ nodeId(flow[1].sourceName) = s /\ nodeId(flow[1].targetName) = t
    THEN flow[1].value
    ELSE Zero
\* the sum of the values the lines ls declare for the pair (s, t)
RECURSIVE DeclaredSum(_, _, _)
DeclaredSum(ls, s, t) ==
    IF ls = <<>> THEN Zero
    ELSE Plus(DeclaredValue(DeclaredFlow(ls[1]), s, t), DeclaredSum(Tail(ls), s, t))

\* C4: the value of every link of the graph parseDSL returns is the sum of the
\* values of the input lines that declare a valid flow with the link's
\* (source id, target id) pair.
C4_AggregationSums ==
    (DslDone /\ ~result.isNull) =>
        \A i \in 1..Len(result.links) :
            result.links[i].value
              = DeclaredSum(lines, result.links[i].source, result.links[i].target)

\* value tokens that are zero, negative or no number, in every notation
BadValueTokens == {<<"0">>, <<"-", "5">>, <<"a", "b", "c">>}
BadValueLines == UNION {Notations(v, c) : v \in BadValueTokens, c \in {<<>>, <<<<"5">>>>}}
PositiveValues(ls) == \A i \in 1..Len(ls) : GreaterThanZero(ls[i].value)

\* C5: every link of a returned graph (parseDSL or parseCSV) has a value above
\* zero, and a line whose value token is zero, negative or unparseable adds no
\* link and no node, in whichever notation it is written.
C5_Positivity ==
    [][/\ ~result'.isNull => PositiveValues(result'.links)
       /\ (/\ pc \in {"lines", "rows"} /\ lineNo < Len(lines)
           /\ lineNo' = lineNo + 1
           /\ lines[lineNo + 1] \in BadValueLines)
          => (nodes' = nodes /\ links' = links)]_vars

\* the aggregated edges in first-occurrence order, as pairs
Candidates == [i \in 1..Len(uniqueLinks) |-> PairOf(processedLinks[i])]
\* the pairs accepted among the candidates before the i-th
AcceptedBefore(i) == {Candidates[j] : j \in 1..(i - 1)} \cap Pairs(safeLinks)

\* C6: of the aggregated edges taken in first-occurrence order, the i-th is
\* accepted if and only if it is no self-loop and no directed path leads from
\* its target to its source among the edges accepted before it; the returned
\* links are the accepted ones.
C6_GreedyAdmission ==
    (mode = "dsl" /\ pc \in {"filter", "done"}) =>
        /\ \A i \in 1..(IF pc = "filter" THEN idx ELSE Len(uniqueLinks)) :
              Candidates[i] \in Pairs(safeLinks)
                <=> /\ Candidates[i][1] # Candidates[i][2]
                    /\ ~Path(AcceptedBefore(i), Candidates[i][2], Candidates[i][1])
        /\ Pairs(safeLinks) \subseteq {Candidates[i] : i \in 1..Len(uniqueLinks)}
        /\ ~result.isNull => result.links = safeLinks

\* A to B kept, B to A dropped, and a later B to C kept
C6_LaterEdgeKept ==
    /\ DslDone /\ pass = 1 /\ ~result.isNull
    /\ Candidates = <<<<<<"a">>, <<"b">>>>, <<<<"b">>, <<"a">>>>, <<<<"b">>, <<"c">>>>>>
    /\ Pairs(result.links) = {<<<<"a">>, <<"b">>>>, <<<<"b">>, <<"c">>>>}

\* C7 (as stated): parseDSL returns null whenever the line loop produced no node
\* or no link, and every non-null result has at least one node and at least
\* one link.
C7_NonNullHasLink ==
    DslDone =>
        /\ (nodes = <<>> \/ links = <<>>) => result.isNull
        /\ ~result.isNull => (Len(result.nodes) >= 1 /\ Len(result.links) >= 1)

\* C7 (amended): parseDSL returns null exactly when the line loop produced no
\* node or no link; a non-null result has at least one node and stems from at
\* least one parsed flow, but its link list may be empty once the cycle filter ran.
C7_NullContract ==
    DslDone =>
        /\ result.isNull <=> (nodes = <<>> \/ links = <<>>)
        /\ ~result.isNull =>
              /\ Len(result.nodes) >= 1
              /\ Len(links) >= 1
              /\ Len(result.links) <= Len(links)

\* null returned for a text of several lines, none of them a flow
C7_GarbageIsNull ==
    /\ DslDone /\ pass = 1 /\ result.isNull
    /\ Len(lines) >= 2
    /\ \E i \in 1..Len(lines) : trim(lines[i]) # <<>>

\* every flow the lines declare is a self-loop, and there is one at least
OnlySelfLoops(ls) ==
    /\ \E i \in 1..Len(ls) : DeclaredFlow(ls[i]) # <<>>
    /\ \A i \in 1..Len(ls) :
          DeclaredFlow(ls[i]) # <<>> =>
              nodeId(DeclaredFlow(ls[i])[1].sourceName)
                = nodeId(DeclaredFlow(ls[i])[1].targetName)
ReferencedNames(ls) ==
    UNION {IF DeclaredFlow(ls[i]) = <<>> THEN {}
           ELSE {DeclaredFlow(ls[i])[1].sourceName, DeclaredFlow(ls[i])[1].targetName} :
           i \in 1..Len(ls)}

\* C8: when the only valid flow lines of the input are self-loops, parseDSL
\* returns a non-null graph with zero links in which every referenced name is
\* a node exactly once (and there is no other node).
C8_SelfLoopsOnly ==
    (DslDone /\ pass = 1 /\ OnlySelfLoops(lines)) =>
        /\ ~result.isNull
        /\ result.links = <<>>
        /\ \A name \in ReferencedNames(lines) :
              Cardinality({i \in 1..Len(result.nodes) : result.nodes[i].name = name}) = 1
        /\ NodeNames(result.nodes) = ReferencedNames(lines)

\* two different self-loops in the input, two nodes and no link in the result
C8_TwoSelfLoops ==
    /\ DslDone /\ pass = 1 /\ OnlySelfLoops(lines)
    /\ Cardinality(ReferencedNames(lines)) = 2
    /\ Len(result.nodes) = 2

\* value and comparison tokens with their values in tenths
NumericCases ==
    {[v |-> <<"1", "0", "0">>, p |-> <<"8", "0">>, cur |-> 1000, prev |-> 800],
     [v |-> <<"1", "0", "0">>, p |-> <<"5">>, cur |-> 1000, prev |-> 50],
     [v |-> <<"1", ".", "5">>, p |-> <<"5">>, cur |-> 15, prev |-> 50],
     [v |-> <<"2", "9", "9">>, p |-> <<"3", "0", "0">>, cur |-> 2990, prev |-> 3000]}
\* the integer nearest to n / d (d > 0), a tie away from zero
RoundDiv(n, d) ==
    IF n >= 0 THEN (2 * n + d) \div (2 * d) ELSE -((2 * (-n) + d) \div (2 * d))
SignedStr(n) == IF n < 0 THEN <<"-">> \o IntToStr(-n) ELSE IntToStr(n)
\* sign + round((current - p) / p * 100) + "%"
ExpectedLabel(cur, prev) ==
    (IF cur - prev >= 0 THEN <<"+">> ELSE <<>>)
    \o SignedStr(RoundDiv((cur - prev) * 100, prev)) \o <<"%">>

\* C9: a line whose comparison token is a plain nonzero number p yields a link
\* with previousValue p and the label sign + round((current - p) / p * 100) + "%",
\* in the bracket, arrow and delimited notations and in parseCSV rows.
C9_NumericComparison ==
    \A c \in NumericCases :
        (JustRead # <<>> /\ JustRead[1] \in ReadableForms(c.v, <<c.p>>)) =>
            /\ links # <<>>
            /\ LastLink.value = Normalize(c.cur, -1)
            /\ LastLink.previousValue = <<Normalize(c.prev, -1)>>
            /\ LastLink.comparisonValue = <<ExpectedLabel(c.cur, c.prev)>>

\* C10: a line whose comparison token is empty or one of nan, null, undefined,
\* n/a, na, none, -, -- (in any case) yields a link with its value and with
\* neither previousValue nor label, in every notation of parseDSL and in parseCSV.
C10_InvalidTokensDropped ==
    \A c \in InvalidTokens \cup {<<>>} :
        (JustRead # <<>> /\ JustRead[1] \in ReadableForms(<<"1", "0", "0">>, <<c>>)) =>
            /\ links # <<>>
            /\ LastLink.value = Normalize(100, 0)
            /\ LastLink.previousValue = <<>>
            /\ LastLink.comparisonValue = <<>>

\* a parseCSV row with the token n/a has been read and its link pushed
C10_CsvRowWithInvalidToken ==
    /\ mode = "csv"
    /\ JustRead = <<CommaForm(<<"1", "0", "0">>, <<<<"n", "/", "a">>>>)>>
    /\ links # <<>>
    /\ LastLink.value = Normalize(100, 0)

\* comparison tokens with the label the resolver is to keep (none: <<>>)
LabelCases ==
    {[tok |-> <<"+", "1", "0", "%">>, label |-> <<<<"+", "1", "0", "%">>>>],
     [tok |-> <<"-", "5", "%">>, label |-> <<<<"-", "5", "%">>>>],
     [tok |-> <<"-", "3">>, label |-> <<<<"-", "3">>>>],
     [tok |-> <<"5", "0", "%">>, label |-> <<<<"5", "0", "%">>>>],
     [tok |-> <<"+">>, label |-> <<<<"+">>>>],
     [tok |-> <<"a", "b", "c">>, label |-> <<<<"a", "b", "c">>>>],
     [tok |-> <<"0", "k">>, label |-> <<<<"0", "k">>>>],
     [tok |-> <<"0">>, label |-> <<>>],
     [tok |-> <<"?", "!">>, label |-> <<>>]}

\* C11: a comparison token that begins with + or - or ends with % is kept as
\* the label, with no previousValue; a token that resolves to zero or does not
\* resolve is kept as the label when it holds a letter and gives no comparison
\* otherwise; and no link leaves the line loop with a previousValue but no label.
C11_LabelPassThrough ==
    /\ \A c \in LabelCases :
          (JustRead # <<>> /\ JustRead[1] \in ReadableForms(<<"1", "0", "0">>, <<c.tok>>)) =>
              /\ links # <<>>
              /\ LastLink.value = Normalize(100, 0)
              /\ LastLink.previousValue = <<>>
              /\ LastLink.comparisonValue = c.label
    /\ pc \in {"lines", "rows"} =>
          \A i \in 1..Len(links) :
              links[i].previousValue # <<>> => links[i].comparisonValue # <<>>

\* the arrow line with the token -3 has been read and its link carries the label
C11_MinusTokenKept ==
    /\ mode = "dsl"
    /\ JustRead = <<NotationForms(<<"1", "0", "0">>, <<<<"-", "3">>>>)[2]>>
    /\ links # <<>>
    /\ LastLink.comparisonValue = <<<<"-", "3">>>>

\* the category by the order expense, revenue, profit, neutral
CategoryByPriority(lower) ==
    IF includes(lower, <<"c", "o", "s", "t">>)
       \/ includes(lower, <<"e", "x", "p", "e", "n", "s", "e">>)
       \/ includes(lower, <<"c", "o", "g", "s">>)
       \/ includes(lower, <<"t", "a", "x">>)
       \/ includes(lower, <<"d", "e", "p", "r", "e", "c", "i", "a", "t", "i", "o", "n">>)
       \/ includes(lower, <<"a", "m", "o", "r", "t", "i", "z", "a", "t", "i", "o", "n">>)
    THEN "expense"
    ELSE IF includes(lower, <<"r", "e", "v", "e", "n", "u", "e">>)
            \/ includes(lower, <<"s", "a", "l", "e", "s">>)
            \/ (includes(lower, <<"i", "n", "c", "o", "m", "e">>) /\ ~includes(lower, <<"n", "e", "t">>))
    THEN "revenue"
    ELSE IF includes(lower, <<"p", "r", "o", "f", "i", "t">>)
            \/ includes(lower, <<"n", "e", "t", " ", "i", "n", "c", "o", "m", "e">>)
            \/ includes(lower, <<"e", "a", "r", "n", "i", "n", "g", "s">>)
            \/ includes(lower, <<"e", "b", "i", "t">>)
            \/ includes(lower, <<"e", "b", "i", "t", "d", "a">>)
    THEN "profit"
    ELSE "neutral"

\* C12: the category of every node is the first matching group in the order
\* expense keywords, revenue keywords, profit keywords, else neutral.
C12_CategoryPriority ==
    \A i \in 1..Len(nodes) :
        nodes[i].category = CategoryByPriority(toLowerCase(nodes[i].name))

\* C13: no two nodes of a graph returned by parseDSL have the same id, the id
\* being the lower-cased name with each run of blanks turned into an underscore.
C13_UniqueNodeIds ==
    (mode = "dsl" /\ ~result.isNull) =>
        /\ \A i \in 1..Len(result.nodes) :
              result.nodes[i].id = underscoreSpaces(toLowerCase(result.nodes[i].name))
        /\ \A i, j \in 1..Len(result.nodes) :
              result.nodes[i].id = result.nodes[j].id => i = j

NodeIds(ns) == {ns[i].id : i \in 1..Len(ns)}

\* C14: in every graph returned by parseDSL or parseCSV, the source and the
\* target of every link are ids of nodes of that graph.
C14_ReferentialIntegrity ==
    ~result.isNull =>
        \A i \in 1..Len(result.links) :
            /\ result.links[i].source \in NodeIds(result.nodes)
            /\ result.links[i].target \in NodeIds(result.nodes)

\* C15: a graph returned by parseCSV has no self-loop, no directed cycle and at
\* most one link per (source, target) pair.
C15_CsvGraphContract ==
    (mode = "csv" /\ ~result.isNull) =>
        /\ Acyclic(Pairs(result.links))
        /\ \A i, j \in 1..Len(result.links) :
              PairOf(result.links[i]) = PairOf(result.links[j]) => i = j

\* a row of column labels: from / source, then to / target
IsHeaderCols(cols) ==
    /\ Len(cols) >= 2
    /\ toLowerCase(trim(cols[1])) \in {<<"f", "r", "o", "m">>, <<"s", "o", "u", "r", "c", "e">>}
    /\ toLowerCase(trim(cols[2])) \in {<<"t", "o">>, <<"t", "a", "r", "g", "e", "t">>}
IsHeaderRow(ln) == IsHeaderCols(parseCSVLine(ln))
\* a row with three columns or more, a source, a target and a value above zero
RowColsValid(cols) ==
    /\ Len(cols) >= 3
    /\ trim(cols[1]) # <<>>
    /\ trim(cols[2]) # <<>>
    /\ GreaterThanZero(parseNumber(cols[3]))
RowValid(ln) == RowColsValid(parseCSVLine(ln))
RowMatches(link, cols) ==
    /\ link.source = trim(cols[1])
    /\ link.target = trim(cols[2])
    /\ link.value = parseNumber(cols[3])
LinksAreRows(ls, dataRows) ==
    /\ Len(ls) = Len(dataRows)
    /\ \A i \in 1..Len(dataRows) : RowMatches(ls[i], parseCSVLine(dataRows[i]))

\* C16: in a document whose first row is no header, the links parseCSV returns
\* are the valid rows in order (three columns or more, a source, a target, a
\* value above zero), the first row and an only row included; other rows are
\* skipped.
C16_HeaderlessRows ==
    (/\ mode = "csv" /\ pc = "done" /\ lines # <<>>
     /\ ~IsHeaderRow(lines[1])
     /\ SelectSeq(lines, RowValid) # <<>>) =>
        /\ ~result.isNull
        /\ LinksAreRows(result.links, SelectSeq(lines, RowValid))

\* value tokens with the number m * 10^e they stand for
NumberCases ==
    {[tok |-> <<"1", "0", "0">>, m |-> 100, e |-> 0],
     [tok |-> <<"1", "2", "3", "4", ".", "5", "6">>, m |-> 123456, e |-> -2],
     [tok |-> <<"1", ",", "2", "3", "4", ".", "5", "6">>, m |-> 123456, e |-> -2],
     [tok |-> <<"$", "1", ",", "2", "3", "4">>, m |-> 1234, e |-> 0],
     [tok |-> <<"1", "0", "k">>, m |-> 10, e |-> 3],
     [tok |-> <<"0", ".", "5", "k">>, m |-> 5, e |-> 2],
     [tok |-> <<"5", "M">>, m |-> 5, e |-> 6],
     [tok |-> <<"1", "b">>, m |-> 1, e |-> 9],
     [tok |-> <<"1", ".", "5", "b", "n">>, m |-> 15, e |-> 8],
     [tok |-> <<"5", " ", "m", "i", "l", "l", "i", "o", "n">>, m |-> 5, e |-> 6],
     [tok |-> <<"2", " ", "B", "i", "l", "l", "i", "o", "n">>, m |-> 2, e |-> 9],
     [tok |-> <<"2", " ", "K">>, m |-> 2, e |-> 3]}

\* C17: parseNumber strips $, commas and blanks and applies a trailing suffix in
\* any case (k: 10^3; m, million: 10^6; b, bn, billion: 10^9); a token without
\* suffix is its plain decimal.  Seen on the value of the link a line pushes.
C17_NumberSuffixes ==
    \A c \in NumberCases :
        (mode = "dsl" /\ JustRead = <<TabLine(c.tok)>>) =>
            /\ links # <<>>
            /\ LastLink.value = Normalize(c.m, c.e)

\* the line with the value token 1.5bn has been read
C17_BillionRead ==
    /\ mode = "dsl"
    /\ JustRead = <<TabLine(<<"1", ".", "5", "b", "n">>)>>
    /\ links # <<>>
    /\ LastLink.value = Normalize(15, 8)

\* digits with at most one point
IsDecimalNumeral(d) ==
    /\ \E i \in 1..Len(d) : IsDigit(d[i])
    /\ \A i \in 1..Len(d) : IsDigit(d[i]) \/ d[i] = "."
    /\ Cardinality({i \in 1..Len(d) : d[i] = "."}) <= 1
RecognizedSuffixes ==
    {<<>>, <<"k">>, <<"m">>, <<"b">>, <<"b", "n">>,
     <<"m", "i", "l", "l", "i", "o", "n">>, <<"b", "i", "l", "l", "i", "o", "n">>}
\* the cleaned token is a decimal numeral once a recognized suffix is removed
ResolvesAsDecimal(cleaned) ==
    \E suffix \in RecognizedSuffixes :
        /\ endsWith(toLowerCase(cleaned), suffix)
        /\ IsDecimalNumeral(Take(cleaned, Len(cleaned) - Len(suffix)))

\* C18: a value token that, once $, commas and blanks are stripped and a
\* recognized suffix is removed, is no decimal numeral makes parseNumber return
\* NaN, and so its line yields no link and no node.
C18_MalformedIsNaN ==
    (mode = "dsl" /\ JustRead # <<>> /\ Len(lines) = 1) =>
        \A v \in NumberTokens \cup MalformedNumberTokens :
            (lines[1] = TabLine(v) /\ ~ResolvesAsDecimal(stripFormatting(v))) =>
                /\ isNaN(parseNumber(v))
                /\ links = <<>>
                /\ nodes = <<>>

\* the call on an input text made of color directives and flows naming A
OnColorText ==
    /\ mode = "dsl" /\ pass = 1 /\ pc # "start"
    /\ \A i \in 1..Len(lines) : lines[i] \in ColorLines
\* the lines among the first k of ls that are flows naming the name
ReferencesIn(ls, k, name) ==
    {i \in 1..k : \E f \in ColorFlows : f.line = ls[i] /\ name \in f.names}
\* the colors of the directives for the name among the first k lines of ls
DirectivesIn(ls, k, name) ==
    {i \in 1..k : \E d \in ColorDirectives : d.line = ls[i] /\ d.name = name}
DirectiveColor(ln) == (CHOOSE d \in ColorDirectives : d.line = ln).color
\* the directives for the name before the first flow line that names it
PendingAtCreation(ls, name) ==
    DirectivesIn(ls, SetMin(ReferencesIn(ls, Len(ls), name)) - 1, name)

\* C19: the color of a node of the returned graph is the color of the first of
\* the directives that name it (among those standing before its first flow line).
C19_FirstDirectiveWins ==
    (OnColorText /\ pc = "done" /\ ~result.isNull) =>
        \A i \in 1..Len(result.nodes) :
            PendingAtCreation(lines, result.nodes[i].name) # {} =>
                result.nodes[i].color
                  = <<DirectiveColor(lines[SetMin(PendingAtCreation(lines,
                                                                    result.nodes[i].name))])>>

\* C20: a color directive line adds no node and no link; a node has a color
\* exactly when a directive for its name stands before the first flow line that
\* names it, the color being #-prefixed and that of such a directive; directives
\* after that line change nothing.
C20_DirectiveBeforeFirstFlow ==
    /\ (OnColorText /\ pc = "lines") =>
          /\ Len(links) = Cardinality({i \in 1..lineNo : \E f \in ColorFlows : f.line = lines[i]})
          /\ NodeNames(nodes)
               = UNION {f.names : f \in {g \in ColorFlows : \E i \in 1..lineNo : g.line = lines[i]}}
    /\ (OnColorText /\ pc = "done" /\ ~result.isNull) =>
          \A i \in 1..Len(result.nodes) :
              IF PendingAtCreation(lines, result.nodes[i].name) = {}
              THEN result.nodes[i].color = <<>>
              ELSE /\ result.nodes[i].color # <<>>
                   /\ result.nodes[i].color[1][1] = "#"
                   /\ result.nodes[i].color[1]
                        \in {DirectiveColor(lines[k]) :
                               k \in PendingAtCreation(lines, result.nodes[i].name)}

\* A got the color of the directive before its flow, a later directive changed nothing
C20_LateDirectiveIgnored ==
    /\ OnColorText /\ pc = "done" /\ ~result.isNull
    /\ lines = <<<<"A", " ", ":", "f", "0", "0">>, <<"A", " ", "[", "1", "]", " ", "B">>, <<"A", " ", ":", "#", "0", "0", "f", "f", "0", "0">>>>
    /\ result.nodes[1].name = <<"A">>
    /\ result.nodes[1].color = <<<<"#", "f", "0", "0">>>>

\* C21: a line of the shape `name :hex` with a malformed hex part sets no color
\* and yields no node and no link, whatever notation its name part resembles.
C21_MalformedDirectiveIgnored ==
    (mode = "dsl" /\ pass = 1 /\ pc # "start" /\ Len(lines) = 1
       /\ lines[1] \in MalformedColorLines /\ lineNo = 1) =>
        /\ nodeColors = <<>>
        /\ nodes = <<>>
        /\ links = <<>>

\* the state right after serializeToDSL ran on the graph `first`
Serialized == mode = "dsl" /\ pass = 2 /\ pc = "start"
DefinedColor(n) == n.color # <<>>
ColoredNodes(ns) == SelectSeq(ns, DefinedColor)
\* the lines the layout asks for before the link lines
DirectiveLines(colored) ==
    [i \in 1..Len(colored) |-> colored[i].name \o <<" ", ":">> \o colored[i].color[1]]
    \o (IF colored = <<>> THEN <<>> ELSE <<<<>>>>)
\* the bracket content the layout asks for
LayoutContent(link) ==
    IF link.previousValue # <<>>
    THEN NumToStr(link.value) \o <<",", " ">> \o NumToStr(link.previousValue[1])
    ELSE IF link.comparisonValue # <<>> /\ link.comparisonValue[1] # <<>>
         THEN NumToStr(link.value) \o <<",", " ">> \o link.comparisonValue[1]
    ELSE NumToStr(link.value)
NamesOfId(ns, id) == {ns[i].name : i \in {j \in 1..Len(ns) : ns[j].id = id}}
LayoutLinkLines(ns, link) ==
    {Bracket(s, LayoutContent(link), t) :
       s \in NamesOfId(ns, link.source), t \in NamesOfId(ns, link.target)}
LayoutHolds(out, head, ns, ls) ==
    /\ Len(out) = Len(head) + Len(ls)
    /\ \A i \in 1..Len(head) : out[i] = head[i]
    /\ \A j \in 1..Len(ls) : out[Len(head) + j] \in LayoutLinkLines(ns, ls[j])

\* C22: the text serializeToDSL returns is the color lines of the colored nodes in
\* node order, a blank line iff there is one, then one line per link in link
\* order: [value, previousValue] when a previous value is defined, else
\* [value, label] when a non-empty label is, else [value]; names come from the ids.
C22_SerializeLayout ==
    Serialized =>
        IF ColoredNodes(first.nodes) = <<>> /\ first.links = <<>>
        THEN text = <<>>
        ELSE LayoutHolds(split(text, "\n"), DirectiveLines(ColoredNodes(first.nodes)),
                         first.nodes, first.links)

\* a link with a previous value and a label was written with the previous value
C22_PreviousValueWritten ==
    /\ Serialized
    /\ Len(first.links) = 1
    /\ first.links[1].previousValue # <<>>
    /\ first.links[1].comparisonValue = <<<<"+", "2", "5", "%">>>>
    /\ text = <<"A", " ", "[", "1", "0", "0", ",", " ", "8", "0", "]", " ", "B">>

\* the call on an input text of merge lines, once aggregation is over
OnMergedText ==
    /\ mode = "dsl" /\ pass = 1 /\ pc \in {"filter", "done"}
    /\ \A i \in 1..Len(lines) : lines[i] \in MergeLines
\* the lines that declare a flow for the pair of ids (s, t)
DeclarationsOf(ls, s, t) ==
    {i \in 1..Len(ls) :
       /\ DeclaredFlow(ls[i]) # <<>>
       /\ nodeId(DeclaredFlow(ls[i])[1].sourceName) = s
       /\ nodeId(DeclaredFlow(ls[i])[1].targetName) = t}
DeclaredPrevious(ln) == DeclaredFlow(ln)[1].previousValue
SumOfPrevious(ls, D) ==
    Plus(DeclaredPrevious(ls[SetMin(D)])[1], DeclaredPrevious(ls[SetMax(D)])[1])
MergedPrevious(link, ls, D) ==
    (Cardinality(D) = 2 /\ \A i \in D : DeclaredPrevious(ls[i]) # <<>>) =>
        /\ link.previousValue = <<SumOfPrevious(ls, D)>>
        /\ link.comparisonValue = <<>>

\* C23: an aggregated edge made of two declarations that both carry a previous
\* value has the sum of the two as its previous value and has no label.
C23_PreviousValuesSummed ==
    OnMergedText =>
        \A k \in 1..Len(processedLinks) :
            MergedPrevious(processedLinks[k], lines,
                           DeclarationsOf(lines, processedLinks[k].source,
                                          processedLinks[k].target))

\* 100 (was 80) and 50 (was 40) from A to B came out as 150 (was 120), no label
C23_TwoPreviousMerged ==
    /\ OnMergedText /\ pc = "done" /\ ~result.isNull
    /\ lines = <<<<"A", " ", "[", "1", "0", "0", ",", " ", "8", "0", "]", " ", "B">>, <<"A", " ", "[", "5", "0", ",", " ", "4", "0", "]", " ", "B">>>>
    /\ Len(result.links) = 1
    /\ result.links[1].value = Normalize(150, 0)
    /\ result.links[1].previousValue = <<Normalize(120, 0)>>
    /\ result.links[1].comparisonValue = <<>>

\* C24: a returned edge made of two or more declarations carries no label.
C24_DropOnAnyMerge ==
    (OnMergedText /\ pc = "done" /\ ~result.isNull) =>
        \A k \in 1..Len(result.links) :
            Cardinality(DeclarationsOf(lines, result.links[k].source,
                                       result.links[k].target)) >= 2
              => result.links[k].comparisonValue = <<>>

\* C25: every aggregated edge that parseDSL rejected and that is no self-loop
\* closes a directed cycle with the edges of the returned graph: a path leads
\* from its target to its source among the returned links.
C25_Maximality ==
    (DslDone /\ ~result.isNull) =>
        \A i \in 1..Len(Candidates) :
            (Candidates[i] \notin Pairs(result.links) /\ Candidates[i][1] # Candidates[i][2])
              => Path(Pairs(result.links), Candidates[i][2], Candidates[i][1])

\* C to A was rejected after A to B and B to C were accepted
C25_ClosingEdgeRejected ==
    /\ DslDone /\ pass = 1 /\ ~result.isNull
    /\ Candidates = <<<<<<"a">>, <<"b">>>>, <<<<"b">>, <<"c">>>>, <<<<"c">>, <<"a">>>>>>
    /\ Pairs(result.links) = {<<<<"a">>, <<"b">>>>, <<<<"b">>, <<"c">>>>}

\* the line loop of parseDSL has read the only line of the input text
OneLineRead == mode = "dsl" /\ pass = 1 /\ pc = "lines" /\ Len(lines) = 1 /\ lineNo = 1
\* the link the arrow line `s -> t v [c]` stands for
ArrowLink(s, t, value, comparison) ==
    [source |-> nodeId(s), target |-> nodeId(t), value |-> value,
     previousValue |-> comparison.previousValue,
     comparisonValue |-> comparison.comparisonValue]
ArrowRead(s, t, v, c) ==
    /\ NodeNames(nodes) = {s, t}
    /\ links = <<ArrowLink(s, t, parseNumber(v), parseComparisonFields(parseNumber(v), c))>>

\* C26: an arrow line `S -> T v` or `S -> T v c` with non-empty names (T of one
\* or several words) and a positive value token v yields the edge from S to T
\* with value parseNumber(v) and the comparison resolved from c.
C26_ArrowNotation ==
    OneLineRead =>
        \A s \in ArrowSources, t \in ArrowTargets, v \in ArrowValues, c \in ArrowComparisons :
            lines[1] = ArrowLine(s, t, v, c) => ArrowRead(s, t, v, c)

\* parseDSL on the first k lines of ls, by the steps of the state machine: the
\* line loop, the null check, the aggregation loop and the filter loop
RECURSIVE ReadLines(_, _, _)
ReadLines(st, ls, k) ==
    IF k = 0 THEN st ELSE parseDSLLine(ReadLines(st, ls, k - 1), ls[k])
RECURSIVE AggregateAll(_, _)
AggregateAll(st, i) ==
    IF i = 0 THEN st ELSE aggregateLink(AggregateAll(st, i - 1), i)
RECURSIVE FilterAll(_, _, _)
FilterAll(st, pl, i) ==
    IF i = 0 THEN st ELSE filterLink(FilterAll(st, pl, i - 1), pl[i])
FilteredOf(agg) ==
    FilterAll([validGraph |-> <<>>, safeLinks |-> <<>>],
              processedLinksOf(agg.links, agg.uniqueLinks), Len(agg.uniqueLinks)).safeLinks
LinksOfRead(st) ==
    IF st.nodes = <<>> \/ st.links = <<>> THEN <<>>
    ELSE FilteredOf(AggregateAll([links |-> st.links, uniqueLinks |-> <<>>], Len(st.links)))
PrefixRead(ls, k) == ReadLines([nodes |-> <<>>, links |-> <<>>, nodeColors |-> <<>>], ls, k)
\* the links of parseDSL(T1), T1 being the first k lines of ls (none when it is null)
PrefixLinks(ls, k) == LinksOfRead(PrefixRead(ls, k))
PairSeq(ls) == [i \in 1..Len(ls) |-> PairOf(ls[i])]
ResultLinks == IF result.isNull THEN <<>> ELSE result.links
\* every element of p occurs in r, in the same relative order
OrderedWithin(p, r) ==
    \A i \in 1..Len(p) :
        \E a \in 1..Len(r) :
            /\ r[a] = p[i]
            /\ \A j \in (i + 1)..Len(p) : \E b \in (a + 1)..Len(r) : r[b] = p[j]

\* C27: the pairs linked by parseDSL(T1) are linked by parseDSL(T1 \n T2) too,
\* in the same relative order, T1 being any leading lines of the text.
C27_AppendKeepsLinks ==
    (DslDone /\ pass = 1) =>
        \A k \in 0..Len(lines) :
            OrderedWithin(PairSeq(PrefixLinks(lines, k)), PairSeq(ResultLinks))

\* the two leading lines alone give A to B; a third line added B to C after it
C27_LinkAppended ==
    /\ DslDone /\ pass = 1
    /\ lines = <<<<"A", " ", "[", "1", "]", " ", "B">>, <<"B", " ", "[", "1", "]", " ", "A">>, <<"B", " ", "[", "1", "]", " ", "C">>>>
    /\ PairSeq(PrefixLinks(lines, 2)) = <<<<<<"a">>, <<"b">>>>>>
    /\ PairSeq(ResultLinks) = <<<<<<"a">>, <<"b">>>>, <<<<"b">>, <<"c">>>>>>

\* the names the lines with a valid positive value name, in first-seen order
\* (the source of a line before its target)
SeenName(acc, name) ==
    IF \E i \in 1..Len(acc) : acc[i] = name THEN acc ELSE Append(acc, name)
SeenFlow(acc, flow) ==
    IF flow = <<>> THEN acc
    ELSE SeenName(SeenName(acc, flow[1].sourceName), flow[1].targetName)
RECURSIVE FirstSeen(_, _)
FirstSeen(ls, k) ==
    IF k = 0 THEN <<>> ELSE SeenFlow(FirstSeen(ls, k - 1), DeclaredFlow(ls[k]))
NameSeq(ns) == [i \in 1..Len(ns) |-> ns[i].name]
Endpoints(ls) == {ls[i].source : i \in 1..Len(ls)} \cup {ls[i].target : i \in 1..Len(ls)}

\* C28: the node list parseDSL returns holds exactly the names that a line with
\* a valid positive value names as source or target, in first-seen order,
\* whether or not a returned link touches them.
C28_NodesSurviveFilter ==
    (DslDone /\ ~result.isNull) =>
        NameSeq(result.nodes) = FirstSeen(lines, Len(lines))

\* C is returned as a node although its only edge, a self-loop, was rejected
C28_IsolatedNodeKept ==
    /\ DslDone /\ pass = 1 /\ ~result.isNull
    /\ lines = <<<<"A", " ", "[", "1", "]", " ", "B">>, <<"B", " ", "[", "1", "]", " ", "A">>, <<"C", " ", "[", "1", "]", " ", "C">>>>
    /\ NameSeq(result.nodes) = <<<<"A">>, <<"B">>, <<"C">>>>
    /\ Endpoints(result.links) = {<<"a">>, <<"b">>}

\* C29: declarations are merged only when their source ids are equal and their
\* target ids are equal: the aggregated edges are exactly the distinct
\* (source id, target id) pairs of the declarations, one edge per pair.
C29_MergeOnlyEqualPairs ==
    (mode = "dsl" /\ pc \in {"filter", "done"} /\ links # <<>>) =>
        /\ {Candidates[j] : j \in 1..Len(Candidates)} = Pairs(links)
        /\ Len(uniqueLinks) = Cardinality(Pairs(links))

\* the rows of the grid whose text commitChanges dispatched
GridParsed == rows # <<>> /\ mode = "dsl" /\ pc = "done" /\ pass = 1
RowHasFlow(r) ==
    /\ trim(r.source) # <<>> /\ trim(r.target) # <<>>
    /\ GreaterThanZero(parseNumber(r.value))
RowLink(r, value, comparison) ==
    [source |-> nodeId(trim(r.source)), target |-> nodeId(trim(r.target)), value |-> value,
     previousValue |-> comparison.previousValue,
     comparisonValue |-> comparison.comparisonValue]
RowEdge(r) ==
    RowLink(r, parseNumber(r.value),
            parseComparisonFields(parseNumber(r.value), <<r.comparison>>))

\* C30: for every row of the grid with a source, a target and a value cell v with
\* parseNumber(v) > 0, parseDSL of the text the editor commits returns an edge
\* with value parseNumber(v) and the comparison of the row's comparison cell.
C30_CommitPreservesValues ==
    GridParsed =>
        \A i \in 1..Len(rows) :
            RowHasFlow(rows[i]) =>
                /\ ~result.isNull
                /\ \E k \in 1..Len(result.links) : result.links[k] = RowEdge(rows[i])

====
